---------------------------- MODULE Spec2Model ----------------------------
(***************************************************************************)
(* Model of the cluster rebalancer (src/main.py), of the scaling decision   *)
(* engine (src/scaling_metrics.py with its caller in                       *)
(* src/aks_integration.py) and of the HPA scheduler (src/hpa_scheduler.py).*)
(*                                                                         *)
(* Units.  CPU quantities are integers counting millicores, memory         *)
(* quantities count thousandths of a Gi, times are whole seconds, response *)
(* times are milliseconds.  Every request of the simulated cluster is a    *)
(* multiple of these units; node scores are kept as exact fractions.       *)
(***************************************************************************)
EXTENDS Integers, Sequences, FiniteSets, TLC

VARIABLES
    now,                 \* the wall clock read by time.time()
    simulated_nodes,     \* ClusterRebalancer.simulated_nodes
    last_rebalance_time, \* ClusterRebalancer.last_rebalance_time
    lastOp,              \* history: the last rebalancer call and the state it found
    last_scale_time,     \* ScalingMetrics.last_scale_time
    metric_history,      \* ScalingMetrics.metric_history
    lastCall,            \* history: the last scaling call and what it decided
    current_window,      \* HPAScheduler.current_window
    wall_clock,          \* datetime.now().time(), in seconds since midnight
    last_rollback_check, \* HPAScheduler.last_rollback_check
    time_windows         \* HPAScheduler.config.TIME_WINDOWS

-----------------------------------------------------------------------------
(* Bounds of the model *)

\* Clock value at which the objects are constructed.
StartTime == 1000
\* The rebalancer's clock is not advanced beyond StartTime + MaxElapsed.
MaxElapsed == 90
\* The scaling engine's clock is not advanced beyond StartTime + MaxScaleElapsed.
MaxScaleElapsed == 120
\* Largest number of samples kept in metric_history.
MaxHistory == 2
\* Longest pod list given to _filter_pods, and the largest number of
\* critical pods in it.
MaxFilterInput == 11
MaxCritical == 1
\* The clock of the sample window is not advanced beyond StartTime + MaxWindowElapsed.
MaxWindowElapsed == 100
\* With failing cycles the clock is not advanced beyond StartTime + MaxFaultElapsed.
MaxFaultElapsed == 30
\* Largest position in the batch at which a migration is made to fail.
MaxFailingPosition == 2
MaxRollbackElapsed == 660
MaxRetries == 3
MaxOrphans == 2
MaxBatch == 3

-----------------------------------------------------------------------------
(* Program constants *)

REBALANCE_INTERVAL_SECONDS == 30
MIN_CHANGE_PERIOD == 120
STABILIZATION_WINDOW == 60
CPU_SCALING_THRESHOLD == 70
MEMORY_SCALING_THRESHOLD == 80
\* RESPONSE_TIME_THRESHOLD = 1.0 s and MAX_RESPONSE_TIME = 2.0 s, in milliseconds
RESPONSE_TIME_THRESHOLD == 1000
MAX_RESPONSE_TIME == 2000
MIN_REPLICAS == 1
MAX_REPLICAS == 10
max_pods_per_cycle == 10
NumInitialPods == 10

\* Python dicts iterate in insertion order; deleting a key keeps the order
\* of the remaining keys.
NodeOrder == <<"aks-spot-1", "aks-spot-2", "aks-regular-1">>
fallback_node_name == "aks-regular-1"

\* A node name that is never a key of simulated_nodes.
UnknownNode == "no-such-node"

\* The value None of a window name.
NoWindow == "None"

\* A time string 'HH:MM' is the sequence of its four digits.
\* Config.TIME_WINDOWS in the order of the dict.
TIME_WINDOWS ==
    << [ name |-> "night",     start |-> <<0, 0, 0, 0>>, end |-> <<0, 6, 0, 0>>,
         min_replicas |-> 1, max_replicas |-> 3 ],
       [ name |-> "morning",   start |-> <<0, 6, 0, 0>>, end |-> <<1, 2, 0, 0>>,
         min_replicas |-> 2, max_replicas |-> 5 ],
       [ name |-> "afternoon", start |-> <<1, 2, 0, 0>>, end |-> <<1, 8, 0, 0>>,
         min_replicas |-> 3, max_replicas |-> 8 ],
       [ name |-> "evening",   start |-> <<1, 8, 0, 0>>, end |-> <<0, 0, 0, 0>>,
         min_replicas |-> 2, max_replicas |-> 6 ] >>

Min(a, b) == IF a <= b THEN a ELSE b
Max(a, b) == IF a >= b THEN a ELSE b

-----------------------------------------------------------------------------
(* Quantities *)

\* Units per core and per Gi: CPU is counted in millicores, memory in
\* thousandths of a Gi.
Milli == 1000

\* A CPU quantity string: digits is float(s.replace('m', '')) counted in
\* thousandths, milli tells whether the string contains 'm'.  '0.3' is
\* [digits |-> 300, milli |-> FALSE], '500m' is [digits |-> 500000, milli |-> TRUE].
CpuQuantity(digits, milli) == [digits |-> digits, milli |-> milli]

\* CPU request as read by _update_simulated_node_usage and
\* _calculate_pod_priority, in millicores.
ParseCpu(q) == IF q.milli THEN q.digits \div 1000 ELSE q.digits

\* CPU request as read by the capacity checks of
\* simulate_spot_node_interruption, in millionths of a core: the division
\* by 1000 is applied whether or not the string has the 'm' suffix.
ParseCpuInterruption(q) == q.digits

\* Pod i of _initialize_regular_node_pods (name 'app-i' is written i).
InitialPod(i) ==
    [ name               |-> i,
      namespace          |-> "default",
      cpu                |-> CpuQuantity(200 + (i % 5) * 100, FALSE),
      memory             |-> 500 + (i % 3) * 500,
      critical           |-> IF i % 3 # 0 THEN "false" ELSE "true",
      creation_timestamp |-> StartTime - i * 3600 ]

InitialPods == [i \in 1..NumInitialPods |-> InitialPod(i)]

RECURSIVE SumCpu(_)
SumCpu(pods) ==
    IF pods = <<>> THEN 0 ELSE ParseCpu(Head(pods).cpu) + SumCpu(Tail(pods))

RECURSIVE SumMem(_)
SumMem(pods) ==
    IF pods = <<>> THEN 0 ELSE Head(pods).memory + SumMem(Tail(pods))

\* _update_simulated_node_usage on one node record.
UpdateUsage(info) ==
    [info EXCEPT !.current_cpu_usage = SumCpu(info.pods),
                 !.current_mem_usage_gb = SumMem(info.pods)]

\* _update_simulated_node_usage(node_name): nothing happens for a missing node.
UpdateSimulatedNodeUsage(nodes, node_name) ==
    IF node_name \in DOMAIN nodes
    THEN [nodes EXCEPT ![node_name] = UpdateUsage(nodes[node_name])]
    ELSE nodes

\* A node record; allocatable holds the numbers of the strings '4' and
\* '16Gi' (whole cores, whole Gi).
NewNode(is_spot, cpu, memory) ==
    [ is_spot              |-> is_spot,
      allocatable          |-> [cpu |-> cpu, memory |-> memory],
      current_cpu_usage    |-> 0,
      current_mem_usage_gb |-> 0,
      pods                 |-> <<>> ]

\* float(allocatable['cpu']) and float(allocatable['memory'].replace('Gi', ''))
\* in the units of the usage counters.
AllocCpu(info) == info.allocatable.cpu * Milli
AllocMem(info) == info.allocatable.memory * Milli

\* simulated_nodes as built by ClusterRebalancer.__init__.
InitialNodes ==
    LET empty == [n \in {"aks-spot-1", "aks-spot-2", "aks-regular-1"} |->
                    CASE n = "aks-spot-1"    -> NewNode(TRUE, 4, 16)
                      [] n = "aks-spot-2"    -> NewNode(TRUE, 2, 8)
                      [] n = "aks-regular-1" -> NewNode(FALSE, 8, 32)]
        filled == [empty EXCEPT !["aks-regular-1"].pods = InitialPods]
    IN  UpdateSimulatedNodeUsage(filled, "aks-regular-1")

\* The keys of the dict, in iteration order.
Keys(nodes) == SelectSeq(NodeOrder, LAMBDA n : n \in DOMAIN nodes)

-----------------------------------------------------------------------------
(* Scoring and sorting *)

RECURSIVE GCD(_, _)
GCD(a, b) == IF b = 0 THEN a ELSE GCD(b, a % b)

\* The fraction n/d (d > 0, n >= 0) in lowest terms.
Fraction(n, d) ==
    LET g == GCD(n, d) IN [num |-> n \div g, den |-> d \div g]

\* The comparison that also holds for equal scores.
ScoreLess_OrEqual(a, b) == a.num * b.den <= b.num * a.den

\* list.sort(key=score, reverse=True) on (item, score) pairs whose score is
\* the fraction num/den: the sort is stable, so an entry goes in front of
\* the first entry with a strictly smaller score.
ScoreLess(a, b) == a.num * b.den < b.num * a.den

RECURSIVE InsertDescending(_, _)
InsertDescending(x, sorted) ==
    IF sorted = <<>> THEN <<x>>
    ELSE IF ScoreLess(Head(sorted), x) THEN <<x>> \o sorted
    ELSE <<Head(sorted)>> \o InsertDescending(x, Tail(sorted))

RECURSIVE SortDescending(_)
SortDescending(entries) ==
    IF entries = <<>> THEN <<>>
    ELSE InsertDescending(entries[Len(entries)],
                          SortDescending(SubSeq(entries, 1, Len(entries) - 1)))

\* calculate_node_score of main.py, times 10: 0.7 * cpu + 0.3 * mem_gb.
calculate_node_score(info) == 7 * info.allocatable.cpu + 3 * info.allocatable.memory

\* _calculate_pod_priority, times 8000.
CalculatePodPriority(pod, t) ==
    LET cpu_req    == ParseCpu(pod.cpu)
        mem_req_gb == pod.memory
    IN  (IF pod.critical = "false" THEN 5 * 8000 ELSE 0)
        + (IF t - pod.creation_timestamp > 3600 THEN 8000 ELSE 0)
        + (4000 - Min(2 * cpu_req, 4000))
        + (4000 - Min(mem_req_gb, 4000))

\* The refresh keeping only the nodes that hold pods.
RefreshUsage_DropsEmpty(nodes) ==
    [n \in {m \in DOMAIN nodes : nodes[m].pods # <<>>} |-> UpdateUsage(nodes[n])]

\* get_node_metrics in simulation mode: every node's usage is recomputed.
RefreshUsage(nodes) == [n \in DOMAIN nodes |-> UpdateUsage(nodes[n])]

\* The search with the label test inverted: it collects the critical pods.
FindPodsForRebalance_Inverted(nodes) ==
    IF "aks-regular-1" \in DOMAIN nodes
    THEN SelectSeq(nodes["aks-regular-1"].pods, LAMBDA pod : pod.critical # "false")
    ELSE <<>>

\* find_pods_for_rebalance in simulation mode.
FindPodsForRebalance(nodes) ==
    IF "aks-regular-1" \in DOMAIN nodes
    THEN SelectSeq(nodes["aks-regular-1"].pods, LAMBDA pod : pod.critical = "false")
    ELSE <<>>

\* _filter_pods without the test that drops critical pods.
FilterPods_KeepCritical(pods, t) ==
    LET scored == [k \in 1..Len(pods) |->
                     [item |-> pods[k], num |-> CalculatePodPriority(pods[k], t), den |-> 1]]
        sorted == SortDescending(scored)
    IN  [k \in 1..Min(Len(sorted), max_pods_per_cycle) |-> sorted[k].item]

\* _filter_pods.
FilterPods(pods, t) ==
    LET kept   == SelectSeq(pods, LAMBDA pod : pod.critical # "true")
        scored == [k \in 1..Len(kept) |->
                     [item |-> kept[k], num |-> CalculatePodPriority(kept[k], t), den |-> 1]]
        sorted == SortDescending(scored)
    IN  [k \in 1..Min(Len(sorted), max_pods_per_cycle) |-> sorted[k].item]

\* The score of _select_target_nodes, times 10, as a fraction:
\* base * (1 + utilization_factor * 2) = base * (3 - cpu_util - mem_util).
TargetScore(info) ==
    LET cpu_capacity    == AllocCpu(info)
        mem_capacity_gb == AllocMem(info)
        cpu_utilization == IF cpu_capacity > 0
                           THEN Fraction(info.current_cpu_usage, cpu_capacity)
                           ELSE [num |-> 1, den |-> 1]
        mem_utilization == IF mem_capacity_gb > 0
                           THEN Fraction(info.current_mem_usage_gb, mem_capacity_gb)
                           ELSE [num |-> 1, den |-> 1]
        dc == cpu_utilization.den
        dm == mem_utilization.den
    IN  [num |-> calculate_node_score(info)
                   * (3 * dc * dm - cpu_utilization.num * dm - mem_utilization.num * dc),
         den |-> dc * dm]

\* The ranking without the is_spot test.
SelectTargetNodes_AllNodes(nodes) ==
    LET spot   == Keys(nodes)
        scored == [k \in 1..Len(spot) |->
                     [item |-> spot[k],
                      num  |-> TargetScore(nodes[spot[k]]).num,
                      den  |-> TargetScore(nodes[spot[k]]).den]]
        sorted == SortDescending(scored)
    IN  [k \in 1..Len(sorted) |-> sorted[k].item]

\* _select_target_nodes: the names of the spot nodes, best score first.
SelectTargetNodes(nodes) ==
    LET spot   == SelectSeq(Keys(nodes), LAMBDA n : nodes[n].is_spot)
        scored == [k \in 1..Len(spot) |->
                     [item |-> spot[k],
                      num  |-> TargetScore(nodes[spot[k]]).num,
                      den  |-> TargetScore(nodes[spot[k]]).den]]
        sorted == SortDescending(scored)
    IN  [k \in 1..Len(sorted) |-> sorted[k].item]

\* safe_evict_pod of main.py.
safe_evict_pod(pod) == pod.critical # "true"

-----------------------------------------------------------------------------
(* Migration and node loss *)

HasPodNamed(info, name) == \E k \in 1..Len(info.pods) : info.pods[k].name = name

\* The loop body without the assignment n_info['pods'] = new_pod_list.
MigratePod_NoRemove(nodes, pod, target_node_name) ==
    IF ~safe_evict_pod(pod) THEN nodes
    ELSE
      LET holders == SelectSeq(Keys(nodes), LAMBDA n : HasPodNamed(nodes[n], pod.name))
      IN  IF holders = <<>> THEN nodes
          ELSE IF target_node_name \in DOMAIN nodes
          THEN UpdateSimulatedNodeUsage(
                 [nodes EXCEPT ![target_node_name].pods = Append(@, pod)],
                 target_node_name)
          ELSE nodes

\* The body of the loop of _execute_migrations for one pod whose target is
\* target_node_name.
MigratePod(nodes, pod, target_node_name) ==
    IF ~safe_evict_pod(pod) THEN nodes
    ELSE
      LET holders == SelectSeq(Keys(nodes), LAMBDA n : HasPodNamed(nodes[n], pod.name))
      IN  IF holders = <<>> THEN nodes
          ELSE
            LET original_node_name == Head(holders)
                new_pod_list == SelectSeq(nodes[original_node_name].pods,
                                          LAMBDA p : p.name # pod.name)
                removed == UpdateSimulatedNodeUsage(
                             [nodes EXCEPT ![original_node_name].pods = new_pod_list],
                             original_node_name)
            IN  IF target_node_name \in DOMAIN removed
                THEN UpdateSimulatedNodeUsage(
                       [removed EXCEPT ![target_node_name].pods = Append(@, pod)],
                       target_node_name)
                ELSE removed

\* The loop with node_cycle_idx never incremented: every pod goes to the
\* best target.
RECURSIVE MigrateFrom_FirstTarget(_, _, _, _)
MigrateFrom_FirstTarget(nodes, pods, target_nodes, k) ==
    IF k > Len(pods) THEN nodes
    ELSE MigrateFrom_FirstTarget(MigratePod(nodes, pods[k], target_nodes[1]),
                                 pods, target_nodes, k + 1)

\* The loop starting its round with the second-best target.
RECURSIVE MigrateFrom_StartsSecond(_, _, _, _)
MigrateFrom_StartsSecond(nodes, pods, target_nodes, k) ==
    IF k > Len(pods) THEN nodes
    ELSE MigrateFrom_StartsSecond(
           MigratePod(nodes, pods[k], target_nodes[(k % Len(target_nodes)) + 1]),
           pods, target_nodes, k + 1)

\* The loop that ends at the first pod it cannot move.
RECURSIVE MigrateFrom_BreakOnSkip(_, _, _, _)
MigrateFrom_BreakOnSkip(nodes, pods, target_nodes, k) ==
    IF k > Len(pods) THEN nodes
    ELSE IF \/ ~safe_evict_pod(pods[k])
            \/ \A n \in DOMAIN nodes : ~HasPodNamed(nodes[n], pods[k].name)
    THEN nodes
    ELSE MigrateFrom_BreakOnSkip(
           MigratePod(nodes, pods[k], target_nodes[((k - 1) % Len(target_nodes)) + 1]),
           pods, target_nodes, k + 1)

\* The loop of _execute_migrations from the pod at position k on; the pod
\* at position k goes to target (k - 1) mod len(target_nodes).
RECURSIVE MigrateFrom(_, _, _, _)
MigrateFrom(nodes, pods, target_nodes, k) ==
    IF k > Len(pods) THEN nodes
    ELSE MigrateFrom(
           MigratePod(nodes, pods[k], target_nodes[((k - 1) % Len(target_nodes)) + 1]),
           pods, target_nodes, k + 1)

\* _execute_migrations in simulation mode.
ExecuteMigrations(nodes, pods, target_nodes) ==
    IF target_nodes = <<>> THEN nodes ELSE MigrateFrom(nodes, pods, target_nodes, 1)

\* The capacity test of simulate_spot_node_interruption, in millionths of a
\* core and thousandths of a Gi.
InterruptionFits(info, pod) ==
    /\ info.current_cpu_usage * 1000 + ParseCpuInterruption(pod.cpu) <= AllocCpu(info) * 1000
    /\ info.current_mem_usage_gb + pod.memory <= AllocMem(info)

\* The placement without the call of _update_simulated_node_usage.
PlacePod_NoUpdate(nodes, target_node_id, pod) ==
    [nodes EXCEPT ![target_node_id].pods = Append(@, pod)]

\* `append(pod)` and `_update_simulated_node_usage(target_node_id)`
PlacePod(nodes, target_node_id, pod) ==
    UpdateSimulatedNodeUsage([nodes EXCEPT ![target_node_id].pods = Append(@, pod)],
                             target_node_id)

\* The states in which one orphaned pod can leave the cluster: random.choice
\* picks any eligible spot node.
ReprogramPod(nodes, pod, remaining_spot_nodes_names) ==
    LET eligible == {n \in remaining_spot_nodes_names : InterruptionFits(nodes[n], pod)}
    IN  IF eligible # {}
        THEN {PlacePod(nodes, n, pod) : n \in eligible}
        ELSE IF fallback_node_name \in DOMAIN nodes /\ ~nodes[fallback_node_name].is_spot
        THEN IF InterruptionFits(nodes[fallback_node_name], pod)
             THEN {PlacePod(nodes, fallback_node_name, pod)}
             ELSE {nodes}
        ELSE {nodes}

\* The loop over interrupted_node_pods from position k on.
RECURSIVE ReprogramFrom(_, _, _, _)
ReprogramFrom(nodes, pods, remaining_spot_nodes_names, k) ==
    IF k > Len(pods) THEN {nodes}
    ELSE UNION {ReprogramFrom(m, pods, remaining_spot_nodes_names, k + 1) :
                  m \in ReprogramPod(nodes, pods[k], remaining_spot_nodes_names)}

\* The guard testing only that the node exists.
NotInterruptible_MissingOnly(nodes, node_name) == node_name \notin DOMAIN nodes

\* The guard of simulate_spot_node_interruption: TRUE when the call returns
\* at once with a warning.
NotInterruptible(nodes, node_name) ==
    node_name \notin DOMAIN nodes \/ ~nodes[node_name].is_spot

\* The node loss without `del self.simulated_nodes[node_name]`.
InterruptionOutcomes_KeepNode(nodes, node_name) ==
    IF NotInterruptible(nodes, node_name) THEN {nodes}
    ELSE
      LET interrupted_node_pods == nodes[node_name].pods
          remaining_spot_nodes_names == {n \in DOMAIN nodes \ {node_name} : nodes[n].is_spot}
      IN  ReprogramFrom(nodes, interrupted_node_pods, remaining_spot_nodes_names, 1)

\* The states simulate_spot_node_interruption(node_name) can end in.
InterruptionOutcomes(nodes, node_name) ==
    IF NotInterruptible(nodes, node_name) THEN {nodes}
    ELSE
      LET interrupted_node_pods == nodes[node_name].pods
          rest == [n \in DOMAIN nodes \ {node_name} |-> nodes[n]]
          remaining_spot_nodes_names == {n \in DOMAIN rest : rest[n].is_spot}
      IN  ReprogramFrom(rest, interrupted_node_pods, remaining_spot_nodes_names, 1)

-----------------------------------------------------------------------------
(* The rebalancer *)

vars == <<now, simulated_nodes, last_rebalance_time, lastOp,
          last_scale_time, metric_history, lastCall, current_window, wall_clock,
          last_rollback_check, time_windows>>
rebalancerVars == <<simulated_nodes, last_rebalance_time, lastOp>>
scaleVars == <<last_scale_time, metric_history, lastCall>>
schedulerVars == <<current_window, wall_clock, last_rollback_check,
                   time_windows>>

\* Seconds a cycle may take between its guard and the assignment of
\* last_rebalance_time.
CycleDurations == {0, 1}
\* Seconds by which the clock advances between calls.
TickSteps == {10}

ClockLimit == StartTime + MaxElapsed

\* The guard comparing against the clock alone.
TooEarly_NoInterval(t, last) == t < REBALANCE_INTERVAL_SECONDS

\* The guard of rebalance_cluster: TRUE when the call returns at once.
TooEarly(t, last) == t - last < REBALANCE_INTERVAL_SECONDS

\* The cluster after the try block of rebalance_cluster started at time t.
CycleResult(nodes, t) ==
    LET node_metrics  == RefreshUsage(nodes)
        pods_to_move  == FindPodsForRebalance(node_metrics)
        filtered_pods == FilterPods(pods_to_move, t)
        target_nodes  == SelectTargetNodes(node_metrics)
        migrated      == IF filtered_pods # <<>> /\ target_nodes # <<>>
                         THEN ExecuteMigrations(node_metrics, filtered_pods, target_nodes)
                         ELSE node_metrics
    IN  RefreshUsage(migrated)

Call(op, arg, ran) ==
    [ op |-> op, arg |-> arg, ran |-> ran, at |-> now,
      before |-> simulated_nodes, last_before |-> last_rebalance_time ]

\* rebalance_cluster()
RebalanceCluster ==
    IF TooEarly(now, last_rebalance_time)
    THEN /\ lastOp' = Call("rebalance_cluster", "", FALSE)
         /\ UNCHANGED <<now, simulated_nodes, last_rebalance_time>>
         /\ UNCHANGED scaleVars
         /\ UNCHANGED schedulerVars
    ELSE \E d \in CycleDurations :
         /\ now + d <= ClockLimit
         /\ simulated_nodes' = CycleResult(simulated_nodes, now)
         /\ now' = now + d
         /\ last_rebalance_time' = now + d
         /\ lastOp' = Call("rebalance_cluster", "", TRUE)
         /\ UNCHANGED scaleVars
         /\ UNCHANGED schedulerVars

\* simulate_spot_node_interruption(node_name)
SimulateSpotNodeInterruption(node_name) ==
    /\ simulated_nodes' \in InterruptionOutcomes(simulated_nodes, node_name)
    /\ lastOp' = Call("simulate_spot_node_interruption", node_name,
                      ~NotInterruptible(simulated_nodes, node_name))
    /\ UNCHANGED <<now, last_rebalance_time>>
    /\ UNCHANGED scaleVars
    /\ UNCHANGED schedulerVars

\* time passes (time.sleep in the __main__ loop, or anything else)
Tick ==
    \E d \in TickSteps :
      /\ now + d <= ClockLimit
      /\ now' = now + d
      /\ UNCHANGED <<simulated_nodes, last_rebalance_time, lastOp>>
      /\ UNCHANGED scaleVars
      /\ UNCHANGED schedulerVars

\* ClusterRebalancer.__init__
InitRebalancer ==
    /\ simulated_nodes = InitialNodes
    /\ last_rebalance_time = 0
    /\ lastOp = [ op |-> "__init__", arg |-> "", ran |-> TRUE, at |-> StartTime,
                  before |-> InitialNodes, last_before |-> 0 ]

\* ScalingMetrics.__init__
InitScaling ==
    /\ last_scale_time = 0
    /\ metric_history = <<>>
    /\ lastCall = [ op |-> "__init__", result |-> FALSE, resize |-> 0,
                    last_scale_before |-> 0, prev_true_at |-> 0, true_at |-> 0,
                    prev_action_at |-> 0, action_at |-> 0 ]

\* HPAScheduler.__init__
InitScheduler ==
    /\ current_window = NoWindow
    /\ wall_clock = 0
    /\ last_rollback_check = 0
    /\ time_windows = TIME_WINDOWS

Init ==
    /\ now = StartTime
    /\ InitRebalancer
    /\ InitScaling
    /\ InitScheduler

Next ==
    \/ RebalanceCluster
    \/ \E node_name \in {"aks-spot-1", "aks-spot-2", "aks-regular-1", UnknownNode} :
         SimulateSpotNodeInterruption(node_name)
    \/ Tick

Spec == Init /\ [][Next]_vars

-----------------------------------------------------------------------------
(* The rebalance loop kept running *)

\* rebalance_cluster is called, a spot node is lost at a time that leaves
\* room, before the clock's limit, for the cycle that follows it, or the loop
\* sleeps.
NextLoop ==
    \/ RebalanceCluster
    \/ \E node_name \in {"aks-spot-1", "aks-spot-2"} :
          /\ now + REBALANCE_INTERVAL_SECONDS <= ClockLimit
          /\ SimulateSpotNodeInterruption(node_name)
    \/ Tick

\* The __main__ loop goes on sleeping and calling rebalance_cluster: the
\* clock advances, and a call of rebalance_cluster that would run a cycle
\* does not stay unmade for ever.
SpecLoop ==
    /\ Init /\ [][NextLoop]_vars
    /\ WF_vars(Tick)
    /\ []<>TooEarly(now, last_rebalance_time)

-----------------------------------------------------------------------------
(* The rebalancer with failing cycles *)

\* The exceptions a step of a cycle can raise (a malformed pod or node
\* record, a failing call); all are subclasses of Exception.
ErrorKinds == {"KeyError", "ValueError"}

\* The steps of the try block in which the exception is raised: the calls of
\* lines 472, 478, 481, 484, 494 and 501.
CycleStages == {"get_node_metrics", "find_pods_for_rebalance", "_filter_pods",
                "_select_target_nodes", "_execute_migrations", "summary"}

\* A handler that names one exception class only.
Handles_KeyErrorOnly(error) == error = "KeyError"

\* `except Exception as e`: TRUE when the handler of rebalance_cluster
\* takes the exception.
Handles(error) == error \in ErrorKinds

\* The cluster a cycle started at time t leaves behind when the step stage
\* raises; in _execute_migrations the exception is raised by
\* _calculate_pod_priority for the pod at position k, after the pods before
\* it have been moved.
FailedCycleResult(nodes, t, stage, k) ==
    LET node_metrics  == RefreshUsage(nodes)
        pods_to_move  == FindPodsForRebalance(node_metrics)
        filtered_pods == FilterPods(pods_to_move, t)
        target_nodes  == SelectTargetNodes(node_metrics)
    IN  IF stage = "summary" THEN CycleResult(nodes, t)
        ELSE IF stage = "_execute_migrations"
        THEN MigrateFrom(node_metrics, SubSeq(filtered_pods, 1, k - 1), target_nodes, 1)
        ELSE node_metrics

\* The positions at which _execute_migrations can raise: it is called only
\* with pods to move and targets to move them to.
FailingPositions(nodes, t, stage) ==
    IF stage = "_execute_migrations"
    THEN IF SelectTargetNodes(RefreshUsage(nodes)) = <<>> THEN {}
         ELSE 1..Min(MaxFailingPosition,
                     Len(FilterPods(FindPodsForRebalance(RefreshUsage(nodes)), t)))
    ELSE {1}

\* The failing cycle with `self.last_rebalance_time = time.time()` as the
\* first statement of the try block.
RebalanceClusterRaises_StampsFirst(stage, error) ==
    /\ ~TooEarly(now, last_rebalance_time)
    /\ \E k \in FailingPositions(simulated_nodes, now, stage) :
         simulated_nodes' = FailedCycleResult(simulated_nodes, now, stage, k)
    /\ last_rebalance_time' = now
    /\ lastOp' = [ op |-> "rebalance_cluster", arg |-> stage, ran |-> TRUE, at |-> now,
                   before |-> simulated_nodes, last_before |-> last_rebalance_time,
                   error |-> error, raised |-> ~Handles(error) ]
    /\ UNCHANGED now
    /\ UNCHANGED scaleVars
    /\ UNCHANGED schedulerVars

\* rebalance_cluster() with an exception raised inside the try block
RebalanceClusterRaises(stage, error) ==
    /\ ~TooEarly(now, last_rebalance_time)
    /\ \E k \in FailingPositions(simulated_nodes, now, stage) :
         simulated_nodes' = FailedCycleResult(simulated_nodes, now, stage, k)
    /\ last_rebalance_time' = IF stage = "summary" THEN now ELSE last_rebalance_time
    /\ lastOp' = [ op |-> "rebalance_cluster", arg |-> stage, ran |-> TRUE, at |-> now,
                   before |-> simulated_nodes, last_before |-> last_rebalance_time,
                   error |-> error, raised |-> ~Handles(error) ]
    /\ UNCHANGED now
    /\ UNCHANGED scaleVars
    /\ UNCHANGED schedulerVars

\* The __main__ loop and any other caller go on only while no exception has
\* left a call.
Escaped == "raised" \in DOMAIN lastOp /\ lastOp.raised

FaultClockLimit == StartTime + MaxFaultElapsed

NextFault ==
    \/ ~Escaped /\ Next /\ now' <= FaultClockLimit
    \/ ~Escaped /\ \E stage \in CycleStages, error \in ErrorKinds :
                      RebalanceClusterRaises(stage, error)

SpecFault == Init /\ [][NextFault]_vars

-----------------------------------------------------------------------------
(* The rebalance loop with a stop signal *)

\* The exception Python raises in the main thread when the stop signal
\* arrives: a BaseException that is no subclass of Exception.
StopSignal == "KeyboardInterrupt"

\* rebalance_cluster() during which the stop signal arrives, in the step
\* stage of the try block.
RebalanceClusterInterrupted(stage) == RebalanceClusterRaises(stage, StopSignal)

\* The stop signal arrives in time.sleep of the __main__ loop.
SleepInterrupted ==
    /\ lastOp' = [ op |-> "sleep", arg |-> "", ran |-> TRUE, at |-> now,
                   before |-> simulated_nodes, last_before |-> last_rebalance_time,
                   error |-> StopSignal, raised |-> TRUE ]
    /\ UNCHANGED <<now, simulated_nodes, last_rebalance_time>>
    /\ UNCHANGED scaleVars
    /\ UNCHANGED schedulerVars

\* The __main__ block: node losses, cycles and sleeps until the signal ends
\* it at `except KeyboardInterrupt` (line 584).
NextInterrupt ==
    \/ ~Escaped /\ Next /\ now' <= FaultClockLimit
    \/ ~Escaped /\ \E stage \in CycleStages : RebalanceClusterInterrupted(stage)
    \/ ~Escaped /\ SleepInterrupted

SpecInterrupt == Init /\ [][NextInterrupt]_vars

-----------------------------------------------------------------------------
(* get_node_metrics against a cluster API *)

\* The nodes a cluster API can list, and their allocatable resources.
ApiNodeNames == {"test-node", "node-b", "aks-spot-1", "aks-regular-1"}
ApiAllocatables == { [cpu |-> 2, memory |-> 8], [cpu |-> 4, memory |-> 16] }

\* What self.api.list_node().items can hold: allocatable by node name.
NodeListings ==
    UNION { [names -> ApiAllocatables] : names \in SUBSET ApiNodeNames }

\* The dict with no key.
EmptyDict == [n \in {} |-> 0]

\* get_node_metrics(): in simulation mode one entry for every simulated
\* node, in production mode the empty dict; the node listing of the API is
\* not read.
GetNodeMetrics(simulation_mode, nodes, listing) ==
    IF simulation_mode
    THEN [n \in DOMAIN nodes |->
            [ is_spot              |-> nodes[n].is_spot,
              pods                 |-> Len(nodes[n].pods),
              allocatable          |-> nodes[n].allocatable,
              current_cpu_usage    |-> UpdateUsage(nodes[n]).current_cpu_usage,
              current_mem_usage_gb |-> UpdateUsage(nodes[n]).current_mem_usage_gb ]]
    ELSE EmptyDict

\* One call of get_node_metrics on a rebalancer whose API client lists
\* listing.
GetNodeMetricsCall(simulation_mode, listing) ==
    /\ simulated_nodes' = IF simulation_mode THEN RefreshUsage(simulated_nodes)
                          ELSE simulated_nodes
    /\ lastOp' = [ op |-> "get_node_metrics", at |-> now,
                   simulation_mode |-> simulation_mode, listing |-> listing,
                   metrics |-> GetNodeMetrics(simulation_mode, simulated_nodes, listing) ]
    /\ UNCHANGED <<now, last_rebalance_time>>
    /\ UNCHANGED scaleVars
    /\ UNCHANGED schedulerVars

NextNodeMetrics ==
    \E simulation_mode \in BOOLEAN, listing \in NodeListings :
      GetNodeMetricsCall(simulation_mode, listing)

SpecNodeMetrics == Init /\ [][NextNodeMetrics]_vars

-----------------------------------------------------------------------------
(* simulate_spot_node_interruption on arbitrary clusters *)

\* A pod named 'app-i' with the given requests.
SnapshotPod(i, cpu, memory) ==
    [ name               |-> i,
      namespace          |-> "default",
      cpu                |-> cpu,
      memory             |-> memory,
      critical           |-> "false",
      creation_timestamp |-> StartTime - 7200 ]

\* The requests of the pods on the node that is lost: '0.4' CPU with 1Gi,
\* '500m' CPU with 1Gi, '0.2' CPU with 6Gi.
OrphanKinds ==
    { [ cpu |-> CpuQuantity(400, FALSE), memory |-> 1000 ],
      [ cpu |-> CpuQuantity(500000, TRUE), memory |-> 1000 ],
      [ cpu |-> CpuQuantity(200, FALSE), memory |-> 6000 ] }

\* The pod lists of the node that is lost.
OrphanLists ==
    UNION { { [k \in 1..len |-> SnapshotPod(k, kinds[k].cpu, kinds[k].memory)] :
              kinds \in [1..len -> OrphanKinds] } : len \in 1..MaxOrphans }

\* A node holding the pods given, its usage counters up to date.
LoadedNode(is_spot, cpu, memory, pods) ==
    UpdateUsage([ NewNode(is_spot, cpu, memory) EXCEPT !.pods = pods ])

\* The other preemptible node: empty, short of CPU (1.8 of 2 committed) or
\* short of memory (7.5Gi of 8Gi committed).
SpotSnapshots ==
    { LoadedNode(TRUE, 2, 8, <<>>),
      LoadedNode(TRUE, 2, 8, << SnapshotPod(8, CpuQuantity(1800, FALSE), 1000) >>),
      LoadedNode(TRUE, 2, 8, << SnapshotPod(8, CpuQuantity(200, FALSE), 7500) >>) }

\* The durable node: empty, short of CPU (7.9 of 8 committed) or short of
\* memory (31.5Gi of 32Gi committed).
RegularSnapshots ==
    { LoadedNode(FALSE, 8, 32, <<>>),
      LoadedNode(FALSE, 8, 32, << SnapshotPod(9, CpuQuantity(7900, FALSE), 1000) >>),
      LoadedNode(FALSE, 8, 32, << SnapshotPod(9, CpuQuantity(200, FALSE), 31500) >>) }

\* The clusters: aks-spot-1 with the pods to be orphaned, and each of
\* aks-spot-2 and aks-regular-1 present or not.
ClusterSnapshots ==
    { [n \in {"aks-spot-1"} \cup spot_names \cup regular_names |->
         CASE n = "aks-spot-1"    -> LoadedNode(TRUE, 4, 16, orphans)
           [] n = "aks-spot-2"    -> spot
           [] n = "aks-regular-1" -> regular] :
      orphans \in OrphanLists, spot \in SpotSnapshots, regular \in RegularSnapshots,
      spot_names \in {{}, {"aks-spot-2"}}, regular_names \in {{}, {"aks-regular-1"}} }

\* The runs of the loop over interrupted_node_pods from position k on: for
\* every pod the cluster the iteration found and the cluster it left.
RECURSIVE ReprogramTraceFrom(_, _, _, _)
ReprogramTraceFrom(nodes, pods, remaining_spot_nodes_names, k) ==
    IF k > Len(pods) THEN { <<>> }
    ELSE UNION { { << [ pod |-> pods[k], before |-> nodes, after |-> m ] >> \o rest :
                   rest \in ReprogramTraceFrom(m, pods, remaining_spot_nodes_names, k + 1) } :
                 m \in ReprogramPod(nodes, pods[k], remaining_spot_nodes_names) }

\* The runs of simulate_spot_node_interruption(node_name) on a node that
\* can be interrupted.
InterruptionTraces(nodes, node_name) ==
    LET interrupted_node_pods == nodes[node_name].pods
        rest == [n \in DOMAIN nodes \ {node_name} |-> nodes[n]]
        remaining_spot_nodes_names == {n \in DOMAIN rest : rest[n].is_spot}
    IN  ReprogramTraceFrom(rest, interrupted_node_pods, remaining_spot_nodes_names, 1)

\* simulate_spot_node_interruption(node_name), with the iterations of its
\* loop on record
SimulateSpotNodeInterruptionTraced(node_name) ==
    IF NotInterruptible(simulated_nodes, node_name)
    THEN /\ lastOp' = [ op |-> "simulate_spot_node_interruption", arg |-> node_name,
                        ran |-> FALSE, at |-> now, before |-> simulated_nodes,
                        last_before |-> last_rebalance_time, trace |-> <<>> ]
         /\ UNCHANGED <<now, simulated_nodes, last_rebalance_time>>
         /\ UNCHANGED scaleVars
         /\ UNCHANGED schedulerVars
    ELSE \E trace \in InterruptionTraces(simulated_nodes, node_name) :
         /\ simulated_nodes' =
              IF trace = <<>>
              THEN [n \in DOMAIN simulated_nodes \ {node_name} |-> simulated_nodes[n]]
              ELSE trace[Len(trace)].after
         /\ lastOp' = [ op |-> "simulate_spot_node_interruption", arg |-> node_name,
                        ran |-> TRUE, at |-> now, before |-> simulated_nodes,
                        last_before |-> last_rebalance_time, trace |-> trace ]
         /\ UNCHANGED <<now, last_rebalance_time>>
         /\ UNCHANGED scaleVars
         /\ UNCHANGED schedulerVars

InitReprogram ==
    /\ now = StartTime
    /\ simulated_nodes \in ClusterSnapshots
    /\ last_rebalance_time = 0
    /\ lastOp = [ op |-> "__init__", arg |-> "", ran |-> TRUE, at |-> StartTime,
                  before |-> simulated_nodes, last_before |-> 0, trace |-> <<>> ]
    /\ InitScaling
    /\ InitScheduler

NextReprogram ==
    \E node_name \in {"aks-spot-1", "aks-spot-2", "aks-regular-1"} :
      SimulateSpotNodeInterruptionTraced(node_name)

SpecReprogram == InitReprogram /\ [][NextReprogram]_vars

-----------------------------------------------------------------------------
(* _execute_migrations on arbitrary batches *)

\* The pods a batch is made of, in the order in which a batch lists them:
\* three non-critical pods and a critical pod of the initial cluster, and a
\* pod that is on no node.
MissingPod == SnapshotPod(NumInitialPods + 1, CpuQuantity(300, FALSE), 1000)
BatchOrder == << InitialPod(4), InitialPod(3), InitialPod(2), MissingPod, InitialPod(1) >>

\* The batches: the pods of one to MaxBatch names, in that order.
Batches ==
    { SelectSeq(BatchOrder, LAMBDA p : p.name \in names) :
      names \in { ns \in SUBSET { BatchOrder[k].name : k \in 1..Len(BatchOrder) } :
                    Cardinality(ns) \in 1..MaxBatch } }

\* The ranked destinations handed to _execute_migrations (node names, best
\* first).
TargetLists ==
    { << "aks-spot-1" >>, << "aks-spot-1", "aks-spot-2" >>,
      << "aks-spot-2", "aks-spot-1" >> }

\* _execute_migrations(pods, target_nodes)
ExecuteMigrationsCall(pods, target_nodes) ==
    /\ simulated_nodes' = ExecuteMigrations(simulated_nodes, pods, target_nodes)
    /\ lastOp' = [ op |-> "_execute_migrations", at |-> now, pods |-> pods,
                   target_nodes |-> target_nodes, before |-> simulated_nodes ]
    /\ UNCHANGED <<now, last_rebalance_time>>
    /\ UNCHANGED scaleVars
    /\ UNCHANGED schedulerVars

NextMigrate ==
    \E pods \in Batches, target_nodes \in TargetLists :
      ExecuteMigrationsCall(pods, target_nodes)

SpecMigrate == Init /\ [][NextMigrate]_vars

\* The initial cluster with one more pod: a pod named 'app-4' in namespace
\* 'batch', on the first spot node or next to 'default/app-4' on the regular
\* node.
InitNamesake ==
    /\ now = StartTime
    /\ \E n \in {"aks-spot-1", "aks-regular-1"} :
         simulated_nodes =
           UpdateSimulatedNodeUsage(
             [InitialNodes EXCEPT ![n].pods =
                Append(@, [InitialPod(4) EXCEPT !.namespace = "batch"])], n)
    /\ last_rebalance_time = 0
    /\ lastOp = [ op |-> "__init__", at |-> now ]
    /\ InitScaling
    /\ InitScheduler

SpecNamesake == InitNamesake /\ [][NextMigrate]_vars

-----------------------------------------------------------------------------
(* _filter_pods on arbitrary pod lists *)

\* The kinds of pod the lists are made of: a critical pod, a non-critical
\* pod older than an hour whose CPU request is written in millicores
\* ('500m'), and a non-critical pod younger than an hour.
PodKinds ==
    { [ cpu |-> CpuQuantity(500, FALSE), memory |-> 500, critical |-> "true",
        creation_timestamp |-> StartTime - 7200 ],
      [ cpu |-> CpuQuantity(500000, TRUE), memory |-> 1000, critical |-> "false",
        creation_timestamp |-> StartTime - 7200 ],
      [ cpu |-> CpuQuantity(300, FALSE), memory |-> 1000, critical |-> "false",
        creation_timestamp |-> StartTime - 60 ] }

\* The pod of kind kind named 'app-i'.
PodOfKind(kind, i) ==
    [ name               |-> i,
      namespace          |-> "default",
      cpu                |-> kind.cpu,
      memory             |-> kind.memory,
      critical           |-> kind.critical,
      creation_timestamp |-> kind.creation_timestamp ]

\* The record of a call _filter_pods(pods, node_metrics) made now.
FilterCall(pods) ==
    [ op |-> "_filter_pods", pods |-> pods, at |-> now, result |-> FilterPods(pods, now) ]

\* _filter_pods called with the previous list extended by one pod
FilterPodsCall(kind) ==
    /\ Len(lastOp.pods) < MaxFilterInput
    /\ kind.critical = "true" =>
         Len(SelectSeq(lastOp.pods, LAMBDA pod : pod.critical = "true")) < MaxCritical
    /\ lastOp' = FilterCall(Append(lastOp.pods, PodOfKind(kind, Len(lastOp.pods) + 1)))
    /\ UNCHANGED <<now, simulated_nodes, last_rebalance_time>>
    /\ UNCHANGED scaleVars
    /\ UNCHANGED schedulerVars

InitFilter ==
    /\ now = StartTime
    /\ simulated_nodes = InitialNodes
    /\ last_rebalance_time = 0
    /\ lastOp = FilterCall(<<>>)
    /\ InitScaling
    /\ InitScheduler

NextFilter == \E kind \in PodKinds : FilterPodsCall(kind)

SpecFilter == InitFilter /\ [][NextFilter]_vars

-----------------------------------------------------------------------------
(* _select_target_nodes on arbitrary metrics snapshots *)

\* The entries a snapshot can hold for a node: either class, the allocatable
\* resources of the two preemptible nodes, and some usage.
SnapshotCpuUsages == {0, 1000, 2000}
SnapshotMemUsages == {0, 4000}
SnapshotEntries ==
    { [ is_spot              |-> is_spot,
        allocatable          |-> allocatable,
        current_cpu_usage    |-> cpu,
        current_mem_usage_gb |-> mem,
        pods                 |-> <<>> ] :
      is_spot \in BOOLEAN,
      allocatable \in {[cpu |-> 4, memory |-> 16], [cpu |-> 2, memory |-> 8]},
      cpu \in SnapshotCpuUsages, mem \in SnapshotMemUsages }

\* The snapshots: any set of the node names, inserted in the order of
\* NodeOrder, with any entries.
Snapshots ==
    UNION { [names -> SnapshotEntries] :
              names \in SUBSET {"aks-spot-1", "aks-spot-2", "aks-regular-1"} }

\* _select_target_nodes(node_metrics) on the snapshot at hand
SelectTargetNodesCall ==
    /\ lastOp.op = "get_node_metrics"
    /\ lastOp' = [ op |-> "_select_target_nodes", node_metrics |-> lastOp.node_metrics,
                   result |-> SelectTargetNodes(lastOp.node_metrics) ]
    /\ UNCHANGED <<now, simulated_nodes, last_rebalance_time>>
    /\ UNCHANGED scaleVars
    /\ UNCHANGED schedulerVars

InitSelect ==
    /\ now = StartTime
    /\ simulated_nodes = InitialNodes
    /\ last_rebalance_time = 0
    /\ \E node_metrics \in Snapshots :
         lastOp = [ op |-> "get_node_metrics", node_metrics |-> node_metrics ]
    /\ InitScaling
    /\ InitScheduler

NextSelect == SelectTargetNodesCall

SpecSelect == InitSelect /\ [][NextSelect]_vars

-----------------------------------------------------------------------------
(* Properties of the rebalancer *)

PodsOn(nodes, n) == IF n \in DOMAIN nodes THEN nodes[n].pods ELSE <<>>

\* Number of entries named name in the pod lists of the nodes in names.
Residences(nodes, names, name) ==
    Cardinality({ <<n, k>> \in (names \cap DOMAIN nodes) \X (1..NumInitialPods) :
                    k <= Len(nodes[n].pods) /\ nodes[n].pods[k].name = name })

WithinCapacity(info) ==
    /\ SumCpu(info.pods) <= AllocCpu(info)
    /\ SumMem(info.pods) <= AllocMem(info)

CycleRan == lastOp.op = "rebalance_cluster" /\ lastOp.ran
NodeLost == lastOp.op = "simulate_spot_node_interruption" /\ lastOp.ran

\* C1: after a migration batch every node's committed CPU and memory (the
\* sums of its resident pods' requests) are within its allocatable capacity.
C1_CapacityAfterBatch ==
    CycleRan => \A n \in DOMAIN simulated_nodes : WithinCapacity(simulated_nodes[n])

CriticalPods == {i \in 1..NumInitialPods : InitialPod(i).critical = "true"}

NoCriticalIn(pods) == \A k \in 1..Len(pods) : pods[k].critical # "true"

\* C2: a pod with the criticality flag is never moved: _filter_pods never
\* returns one, safe_evict_pod never succeeds for one, and every critical pod
\* is resident on aks-regular-1, where it started, and nowhere else.
C2_CriticalPodsStay ==
    /\ \A i \in CriticalPods :
         /\ Residences(simulated_nodes, {"aks-regular-1"}, i) = 1
         /\ Residences(simulated_nodes, {"aks-spot-1", "aks-spot-2"}, i) = 0
    /\ \A n \in DOMAIN simulated_nodes :
         /\ NoCriticalIn(FilterPods(simulated_nodes[n].pods, now))
         /\ \A k \in 1..Len(simulated_nodes[n].pods) :
              simulated_nodes[n].pods[k].critical = "true"
                => ~safe_evict_pod(simulated_nodes[n].pods[k])

\* Cycles and a node loss have happened, pods have been moved off the durable
\* node, and only the critical pods are left on it.
C2_Witness ==
    /\ NodeLost
    /\ last_rebalance_time > 0
    /\ Len(PodsOn(simulated_nodes, "aks-regular-1")) = Cardinality(CriticalPods)
    /\ \E n \in DOMAIN simulated_nodes :
         simulated_nodes[n].is_spot /\ simulated_nodes[n].pods # <<>>

\* C3: every pod of the simulated cluster is in the pod list of exactly one
\* node, once.
C3_ExactlyOneResidence ==
    \A i \in 1..NumInitialPods : Residences(simulated_nodes, DOMAIN simulated_nodes, i) = 1

\* A node loss that had pods to redistribute, after a cycle that moved pods.
C3_Witness ==
    /\ NodeLost
    /\ lastOp.before[lastOp.arg].pods # <<>>
    /\ last_rebalance_time > 0

\* B has room, by the real requests, for everything that is on A.
RoomForAll(nodes, a, b) ==
    /\ SumCpu(nodes[b].pods) + SumCpu(nodes[a].pods) <= AllocCpu(nodes[b])
    /\ SumMem(nodes[b].pods) + SumMem(nodes[a].pods) <= AllocMem(nodes[b])

\* The precondition of C4, on the cluster before the node loss.
C4_Case ==
    /\ NodeLost
    /\ "aks-regular-1" \in DOMAIN lastOp.before
    /\ \E b \in DOMAIN lastOp.before \ {lastOp.arg} :
         lastOp.before[b].is_spot /\ RoomForAll(lastOp.before, lastOp.arg, b)

\* C4: when a preemptible node A is lost while another preemptible node B
\* with room for A's pods and the durable node C are present, A is gone from
\* the node set and every pod that was on A is on exactly one of B and C.
C4_NodeLossRedistribution ==
    C4_Case =>
      /\ lastOp.arg \notin DOMAIN simulated_nodes
      /\ \A k \in 1..Len(lastOp.before[lastOp.arg].pods) :
           LET name == lastOp.before[lastOp.arg].pods[k].name
           IN  /\ Residences(simulated_nodes, DOMAIN lastOp.before \ {lastOp.arg}, name) = 1
               /\ Residences(simulated_nodes, DOMAIN simulated_nodes, name) = 1

\* The lost node held at least two pods.
C4_Witness == C4_Case /\ Len(lastOp.before[lastOp.arg].pods) >= 2

\* No preemptible node of the cluster has room for any candidate pod.
NoSpareSpotCapacity(nodes) ==
    LET candidates == FindPodsForRebalance(nodes)
    IN  \A n \in DOMAIN nodes : \A k \in 1..Len(candidates) :
          nodes[n].is_spot =>
            \/ nodes[n].current_cpu_usage + ParseCpu(candidates[k].cpu) > AllocCpu(nodes[n])
            \/ nodes[n].current_mem_usage_gb + candidates[k].memory > AllocMem(nodes[n])

\* C5: a cycle run when no preemptible node has spare capacity for any
\* candidate pod leaves every pod list and every usage counter as it was.
C5_NoCapacityNoMove ==
    CycleRan /\ NoSpareSpotCapacity(lastOp.before) => simulated_nodes = lastOp.before

\* C9: one cycle from the initial cluster leaves at least one pod on each
\* preemptible node and strictly lowers the durable node's committed CPU and
\* memory.
C9_FirstCycle ==
    CycleRan /\ lastOp.before = InitialNodes =>
      /\ \A n \in {"aks-spot-1", "aks-spot-2"} :
           n \in DOMAIN simulated_nodes /\ Len(simulated_nodes[n].pods) >= 1
      /\ simulated_nodes["aks-regular-1"].current_cpu_usage
           < InitialNodes["aks-regular-1"].current_cpu_usage
      /\ simulated_nodes["aks-regular-1"].current_mem_usage_gb
           < InitialNodes["aks-regular-1"].current_mem_usage_gb

C9_Witness == CycleRan /\ lastOp.before = InitialNodes

\* C10: rebalance_cluster runs a cycle only when at least
\* REBALANCE_INTERVAL_SECONDS have passed since last_rebalance_time; an
\* earlier call changes nothing, so a cycle starts at least 30 s after the
\* previous one completed.
C10_MinimumInterval ==
    lastOp.op = "rebalance_cluster" =>
      /\ lastOp.ran <=> lastOp.at - lastOp.last_before >= 30
      /\ ~lastOp.ran =>
           simulated_nodes = lastOp.before /\ last_rebalance_time = lastOp.last_before
      /\ lastOp.ran => last_rebalance_time >= lastOp.last_before + 30

\* A second cycle has run, and a call has been turned away.
C10_Witness ==
    \/ CycleRan /\ lastOp.last_before > 0
    \/ lastOp.op = "rebalance_cluster" /\ ~lastOp.ran /\ lastOp.last_before > 0

\* The last call was a cycle in which an exception was raised.
CycleFailed == lastOp.op = "rebalance_cluster" /\ "error" \in DOMAIN lastOp

C12_InterruptionNoOp ==
    lastOp.op = "simulate_spot_node_interruption"
      /\ (lastOp.arg \notin DOMAIN lastOp.before \/ ~lastOp.before[lastOp.arg].is_spot)
      => simulated_nodes = lastOp.before

\* The second interruption of a preemptible node that is already gone, in a
\* cluster whose preemptible nodes held pods.
C12_Witness ==
    /\ lastOp.op = "simulate_spot_node_interruption"
    /\ lastOp.arg \in {"aks-spot-1", "aks-spot-2"}
    /\ lastOp.arg \notin DOMAIN lastOp.before
    /\ \E n \in DOMAIN simulated_nodes :
         simulated_nodes[n].is_spot /\ simulated_nodes[n].pods # <<>>

\* C13: a call of rebalance_cluster leaves the node set as it was, a call of
\* simulate_spot_node_interruption removes exactly the named node when it is
\* a preemptible node of the set and nothing otherwise, and the durable node
\* aks-regular-1 is always in the node set.
C13_NodeSetFrame ==
    /\ "aks-regular-1" \in DOMAIN simulated_nodes
    /\ ~simulated_nodes["aks-regular-1"].is_spot
    /\ lastOp.op = "rebalance_cluster" => DOMAIN simulated_nodes = DOMAIN lastOp.before
    /\ lastOp.op = "simulate_spot_node_interruption" =>
         DOMAIN simulated_nodes =
           IF lastOp.arg \in DOMAIN lastOp.before /\ lastOp.before[lastOp.arg].is_spot
           THEN DOMAIN lastOp.before \ {lastOp.arg}
           ELSE DOMAIN lastOp.before

\* A cycle that moved pods has run in a cluster that had lost a node.
C13_Witness ==
    /\ CycleRan
    /\ Cardinality(DOMAIN lastOp.before) = 2
    /\ simulated_nodes # lastOp.before

\* The pods of the last _filter_pods call that are not critical, and the
\* names of the pods it returned (a pod's name is its position in the input).
NonCriticalInputs == {k \in 1..Len(lastOp.pods) : lastOp.pods[k].critical # "true"}
ReturnedNames == {lastOp.result[k].name : k \in 1..Len(lastOp.result)}
PriorityAtCall(pod) == CalculatePodPriority(pod, lastOp.at)

\* C14: the list returned by _filter_pods consists of input pods, each at
\* most once, none of them critical; its length is the smaller of
\* max_pods_per_cycle and the number of non-critical input pods; priorities
\* do not increase along it and pods of equal priority keep their input
\* order; no pod left out has a higher priority than a returned pod.
C14_FilterPods ==
    lastOp.op = "_filter_pods" =>
      /\ \A k \in 1..Len(lastOp.result) :
           /\ lastOp.result[k].name \in 1..Len(lastOp.pods)
           /\ lastOp.result[k] = lastOp.pods[lastOp.result[k].name]
           /\ lastOp.result[k].critical # "true"
      /\ Cardinality(ReturnedNames) = Len(lastOp.result)
      /\ Len(lastOp.result) = Min(10, Cardinality(NonCriticalInputs))
      /\ \A k \in 1..(Len(lastOp.result) - 1) :
           \/ PriorityAtCall(lastOp.result[k]) > PriorityAtCall(lastOp.result[k + 1])
           \/ /\ PriorityAtCall(lastOp.result[k]) = PriorityAtCall(lastOp.result[k + 1])
              /\ lastOp.result[k].name < lastOp.result[k + 1].name
      /\ \A j \in (1..Len(lastOp.pods)) \ ReturnedNames : \A k \in 1..Len(lastOp.result) :
           PriorityAtCall(lastOp.pods[j]) <= PriorityAtCall(lastOp.result[k])

\* More non-critical pods than max_pods_per_cycle went in, of both
\* priorities and with the lower priority first, and one was cut off.
C14_Witness ==
    /\ lastOp.op = "_filter_pods"
    /\ Cardinality(NonCriticalInputs) > 10
    /\ Len(lastOp.result) = 10
    /\ PriorityAtCall(lastOp.pods[1]) < PriorityAtCall(lastOp.pods[2])
    /\ PriorityAtCall(lastOp.result[1]) > PriorityAtCall(lastOp.result[10])

\* Position of a node name in the insertion order of the snapshot.
InsertionIndex(n) == CHOOSE k \in 1..Len(NodeOrder) : NodeOrder[k] = n

\* score(a) > score(b) and score(a) = score(b) for the scores of
\* _select_target_nodes.
ScoreAbove(a, b) == TargetScore(a).num * TargetScore(b).den > TargetScore(b).num * TargetScore(a).den
ScoreEqual(a, b) == TargetScore(a).num * TargetScore(b).den = TargetScore(b).num * TargetScore(a).den

\* C15: _select_target_nodes returns exactly the preemptible nodes of the
\* snapshot, each once and no durable node, by non-increasing score, nodes
\* of equal score in the insertion order of the snapshot.
C15_SelectTargetNodes ==
    lastOp.op = "_select_target_nodes" =>
      /\ {lastOp.result[k] : k \in 1..Len(lastOp.result)}
           = {n \in DOMAIN lastOp.node_metrics : lastOp.node_metrics[n].is_spot}
      /\ \A j, k \in 1..Len(lastOp.result) : lastOp.result[j] = lastOp.result[k] => j = k
      /\ \A k \in 1..(Len(lastOp.result) - 1) :
           LET a == lastOp.node_metrics[lastOp.result[k]]
               b == lastOp.node_metrics[lastOp.result[k + 1]]
           IN  \/ ScoreAbove(a, b)
               \/ /\ ScoreEqual(a, b)
                  /\ InsertionIndex(lastOp.result[k]) < InsertionIndex(lastOp.result[k + 1])

\* A snapshot of three nodes, one of them durable, whose two preemptible
\* nodes come back in the reverse of their insertion order.
C15_Witness ==
    /\ lastOp.op = "_select_target_nodes"
    /\ Cardinality(DOMAIN lastOp.node_metrics) = 3
    /\ Len(lastOp.result) = 2
    /\ InsertionIndex(lastOp.result[1]) > InsertionIndex(lastOp.result[2])

-----------------------------------------------------------------------------
(* The scaling decision engine *)

\* pods ** 0.7, times 1000, for 1..12 pods.
Pow07 == <<1000, 1625, 2158, 2639, 3085, 3505, 3905, 4287, 4656, 5012, 5358, 5694>>

\* _calculate_simulated_response_time, in milliseconds (rounded down):
\* 0.2 + (cpu/100)**2 * (memory/100) * (1 / max(1, pods**0.7)) * 3.0
CalculateSimulatedResponseTime(cpu, memory, pods) ==
    LET scaling == IF pods >= 1 THEN Pow07[pods] ELSE 1000
    IN  200 + (3 * cpu * cpu * memory) \div scaling

\* The optional parameter response_time is a sequence: empty when the
\* caller leaves it out (None), else holding the value.
None == <<>>

\* The sample update_metrics(cpu, memory, pods, response_time) appends at time t.
Sample(t, cpu, memory, pods, response_time) ==
    [ timestamp     |-> t,
      cpu           |-> cpu,
      memory        |-> memory,
      response_time |-> IF response_time = None
                        THEN CalculateSimulatedResponseTime(cpu, memory, pods)
                        ELSE response_time[1] ]

\* The pruning that keeps the sample taken exactly a window ago.
UpdatedHistory_KeepBoundary(history, t, cpu, memory, pods, response_time) ==
    SelectSeq(Append(history, Sample(t, cpu, memory, pods, response_time)),
              LAMBDA m : m.timestamp >= t - STABILIZATION_WINDOW)

\* metric_history after update_metrics(cpu, memory, pods, response_time) at time t.
UpdatedHistory(history, t, cpu, memory, pods, response_time) ==
    SelectSeq(Append(history, Sample(t, cpu, memory, pods, response_time)),
              LAMBDA m : m.timestamp > t - STABILIZATION_WINDOW)

RECURSIVE SumOf(_, _)
SumOf(history, field) ==
    IF history = <<>> THEN 0 ELSE Head(history)[field] + SumOf(Tail(history), field)

\* The cooldown test against the stabilization window instead of the
\* minimum change period.
InCooldown_Window(t, last) == t - last < STABILIZATION_WINDOW

\* The cooldown test of should_scale_up.
InCooldown(t, last) == t - last < MIN_CHANGE_PERIOD

\* avg >= threshold
AvgExceeds_OrEqual(history, field, threshold) ==
    SumOf(history, field) >= threshold * Len(history)

\* avg > threshold, for avg = sum / len(history)
AvgExceeds(history, field, threshold) ==
    SumOf(history, field) > threshold * Len(history)

\* The value returned by should_scale_up() at time t.
ShouldScaleUp(history, t, last) ==
    IF InCooldown(t, last) THEN FALSE
    ELSE IF history = <<>> THEN FALSE
    ELSE IF AvgExceeds(history, "response_time", MAX_RESPONSE_TIME) THEN TRUE
    ELSE IF AvgExceeds(history, "response_time", RESPONSE_TIME_THRESHOLD) THEN TRUE
    ELSE IF \/ AvgExceeds(history, "cpu", CPU_SCALING_THRESHOLD)
            \/ AvgExceeds(history, "memory", MEMORY_SCALING_THRESHOLD) THEN TRUE
    ELSE FALSE

\* last_scale_time after should_scale_up() at time t: every branch that
\* returns True stores the clock.
LastScaleTimeAfter(history, t, last) ==
    IF ShouldScaleUp(history, t, last) THEN t ELSE last

\* The measurements <<cpu %, memory %, pods>> the engine is fed, by
\* update_metrics without a response time and by the queries of
\* auto_scale_node_pool, and the calls <<cpu %, memory %, pods, response
\* time>> of update_metrics with a measured response time.
Measurements ==
    { <<30, 40, 5>>, <<30, 40, 10>>, <<30, 90, 5>>,
      <<70, 80, 1>>, <<95, 40, 10>>, <<95, 90, 1>> }
TimedMeasurements == { <<70, 80, 10, <<1000>>>>, <<30, 40, 5, <<2500>>>> }
\* What the queries of auto_scale_node_pool return: the pod count of the
\* namespace can be above MAX_REPLICAS.
PoolMeasurements == Measurements \cup { <<30, 40, 12>> }
ScaleTickSteps == {40}

ScaleClockLimit == StartTime + MaxScaleElapsed

\* The history record of a call made now: what should_scale_up returned in
\* it, the pod count it asked scale_node_pool for (0: none), last_scale_time
\* as the call found it, the times of the latest True result before the call
\* and up to the call, and the same for the latest scale action (a True
\* result or a resize request); 0 stands for "never", as in last_scale_time.
ScaleCall(op, result, resize) ==
    [ op |-> op, result |-> result, resize |-> resize,
      last_scale_before |-> last_scale_time,
      prev_true_at |-> lastCall.true_at,
      true_at |-> IF result THEN now ELSE lastCall.true_at,
      prev_action_at |-> lastCall.action_at,
      action_at |-> IF result \/ resize # 0 THEN now ELSE lastCall.action_at ]

\* update_metrics(cpu_usage, memory_usage, current_pods, response_time)
UpdateMetrics(cpu, memory, pods, response_time) ==
    LET history == UpdatedHistory(metric_history, now, cpu, memory, pods, response_time)
    IN  /\ Len(history) <= MaxHistory
        /\ metric_history' = history
        /\ lastCall' = ScaleCall("update_metrics", FALSE, 0)
        /\ UNCHANGED <<now, last_scale_time>>
        /\ UNCHANGED rebalancerVars
        /\ UNCHANGED schedulerVars

\* should_scale_up()
ShouldScaleUpCall ==
    /\ last_scale_time' = LastScaleTimeAfter(metric_history, now, last_scale_time)
    /\ lastCall' = ScaleCall("should_scale_up",
                             ShouldScaleUp(metric_history, now, last_scale_time), 0)
    /\ UNCHANGED <<now, metric_history>>
    /\ UNCHANGED rebalancerVars
    /\ UNCHANGED schedulerVars

\* The pod count auto_scale_node_pool asks scale_node_pool for, 0 when it
\* makes no request.
RequestedCount(scale_up, cpu_usage, memory_usage, current_pods) ==
    IF scale_up /\ current_pods < MAX_REPLICAS
    THEN Min(current_pods + 1, MAX_REPLICAS)
    ELSE IF /\ current_pods > MIN_REPLICAS
            /\ 10 * cpu_usage < CPU_SCALING_THRESHOLD * 7
            /\ 10 * memory_usage < MEMORY_SCALING_THRESHOLD * 7
    THEN Max(current_pods - 1, MIN_REPLICAS)
    ELSE 0

\* auto_scale_node_pool(pool_name): the three queries return cpu_usage,
\* memory_usage and current_pods.
AutoScaleNodePool(cpu_usage, memory_usage, current_pods) ==
    LET history  == UpdatedHistory(metric_history, now, cpu_usage, memory_usage,
                                   current_pods, None)
        scale_up == ShouldScaleUp(history, now, last_scale_time)
    IN  /\ Len(history) <= MaxHistory
        /\ metric_history' = history
        /\ last_scale_time' = LastScaleTimeAfter(history, now, last_scale_time)
        /\ lastCall' = ScaleCall("auto_scale_node_pool", scale_up,
                                 RequestedCount(scale_up, cpu_usage, memory_usage, current_pods))
                       @@ [ current_pods |-> current_pods ]
        /\ UNCHANGED now
        /\ UNCHANGED rebalancerVars
        /\ UNCHANGED schedulerVars

\* time passes between calls
ScaleTick ==
    \E d \in ScaleTickSteps :
      /\ now + d <= ScaleClockLimit
      /\ now' = now + d
      /\ lastCall' = [ op |-> "sleep", result |-> FALSE, resize |-> 0,
                       last_scale_before |-> last_scale_time,
                       prev_true_at |-> lastCall.true_at,
                       true_at |-> lastCall.true_at,
                       prev_action_at |-> lastCall.action_at,
                       action_at |-> lastCall.action_at ]
      /\ UNCHANGED <<last_scale_time, metric_history>>
      /\ UNCHANGED rebalancerVars
      /\ UNCHANGED schedulerVars

NextScale ==
    \/ \E m \in Measurements : UpdateMetrics(m[1], m[2], m[3], None)
    \/ \E m \in TimedMeasurements : UpdateMetrics(m[1], m[2], m[3], m[4])
    \/ ShouldScaleUpCall
    \/ \E m \in PoolMeasurements : AutoScaleNodePool(m[1], m[2], m[3])
    \/ ScaleTick

SpecScale == Init /\ [][NextScale]_vars

-----------------------------------------------------------------------------
(* The metrics queries of a scaling cycle *)

\* What the HTTP request of get_prometheus_metrics meets: an exception of
\* requests.get or raise_for_status, a body whose status is not 'success',
\* an empty result list, a result whose value float() rejects, or a value.
RequestError == [ kind |-> "request_error", value |-> 0 ]
NotSuccess == [ kind |-> "not_success", value |-> 0 ]
NoResult == [ kind |-> "no_result", value |-> 0 ]
BadValue == [ kind |-> "bad_value", value |-> 0 ]
Value(v) == [ kind |-> "value", value |-> v ]

\* The gauge read by _get_simulated_metric: the value update_metrics set
\* last, 0 on a fresh object.
Gauge(history, field) ==
    IF history = <<>> THEN 0 ELSE history[Len(history)][field]

\* The query function that lets the failure of the request out.
GetPrometheusMetrics_Propagates(environment, simulated, response) ==
    IF environment = "local" THEN [ raised |-> "", value |-> simulated ]
    ELSE IF response.kind = "value" THEN [ raised |-> "", value |-> response.value ]
    ELSE IF response.kind \in {"request_error", "bad_value"}
    THEN [ raised |-> "Exception", value |-> 0 ]
    ELSE [ raised |-> "", value |-> 0 ]

\* get_prometheus_metrics(query): the exception that leaves the call (none:
\* "") and the value returned.
GetPrometheusMetrics(environment, simulated, response) ==
    IF environment = "local" THEN [ raised |-> "", value |-> simulated ]
    ELSE IF response.kind = "value" THEN [ raised |-> "", value |-> response.value ]
    ELSE [ raised |-> "", value |-> 0 ]

CpuAnswers == { RequestError, NoResult, Value(95) }
MemoryAnswers == { NotSuccess, Value(40) }
PodCountAnswers == { BadValue, Value(5) }

\* auto_scale_node_pool(pool_name) with its three queries: the cycle ends
\* in the value it returns, or in the handler of line 138 when a call
\* inside it raised.  scale_node_pool returns True, or False when the
\* Azure call raises (scale_ok).
AutoScaleNodePoolCycle(environment, cpu_answer, memory_answer, pods_answer, scale_ok) ==
    LET cpu_query == GetPrometheusMetrics(environment, Gauge(metric_history, "cpu"),
                                          cpu_answer)
        memory_query == GetPrometheusMetrics(environment, Gauge(metric_history, "memory"),
                                             memory_answer)
        pods_query == GetPrometheusMetrics(environment, 0, pods_answer)
        queries  == << cpu_query, memory_query, pods_query >>
        raised   == \E k \in 1..3 : queries[k].raised # ""
        history  == UpdatedHistory(metric_history, now, cpu_query.value,
                                   memory_query.value, pods_query.value, None)
        scale_up == ShouldScaleUp(history, now, last_scale_time)
        resize   == RequestedCount(scale_up, cpu_query.value, memory_query.value,
                                   pods_query.value)
    IN  /\ ~raised => Len(history) <= MaxHistory
        /\ metric_history' = IF raised THEN metric_history ELSE history
        /\ last_scale_time' = IF raised THEN last_scale_time
                              ELSE LastScaleTimeAfter(history, now, last_scale_time)
        /\ lastCall' = [ op |-> "auto_scale_node_pool_cycle",
                         environment |-> environment,
                         answers |-> << cpu_answer, memory_answer, pods_answer >>,
                         queries |-> queries,
                         handled |-> raised,
                         resize |-> IF raised THEN 0 ELSE resize,
                         result |-> IF raised \/ resize = 0 THEN FALSE ELSE scale_ok ]
        /\ UNCHANGED now
        /\ UNCHANGED rebalancerVars
        /\ UNCHANGED schedulerVars

\* time passes between two cycles
QueryTick ==
    \E d \in ScaleTickSteps :
      /\ now + d <= ScaleClockLimit
      /\ now' = now + d
      /\ lastCall' = [ op |-> "sleep" ]
      /\ UNCHANGED <<last_scale_time, metric_history>>
      /\ UNCHANGED rebalancerVars
      /\ UNCHANGED schedulerVars

InitQuery ==
    /\ now = StartTime
    /\ InitRebalancer
    /\ last_scale_time = 0
    /\ metric_history = <<>>
    /\ lastCall = [ op |-> "__init__" ]
    /\ InitScheduler

NextQuery ==
    \/ \E environment \in {"local", "production"}, cpu_answer \in CpuAnswers,
          memory_answer \in MemoryAnswers, pods_answer \in PodCountAnswers,
          scale_ok \in BOOLEAN :
         AutoScaleNodePoolCycle(environment, cpu_answer, memory_answer,
                                pods_answer, scale_ok)
    \/ QueryTick

SpecQuery == InitQuery /\ [][NextQuery]_vars

-----------------------------------------------------------------------------
(* The sample window with a record of everything ingested *)

WindowMeasurements == { <<30, 40, 5, None>>, <<95, 90, 1, <<2500>>>> }
WindowTickSteps == {20}

WindowClockLimit == StartTime + MaxWindowElapsed

\* update_metrics(cpu_usage, memory_usage, current_pods, response_time),
\* recording the sample among those ingested so far
IngestMetrics(cpu, memory, pods, response_time) ==
    LET history == UpdatedHistory(metric_history, now, cpu, memory, pods, response_time)
    IN  /\ Len(history) <= MaxHistory
        /\ metric_history' = history
        /\ lastCall' = [ op |-> "update_metrics",
                         ingested |-> Append(lastCall.ingested,
                                             Sample(now, cpu, memory, pods, response_time)) ]
        /\ UNCHANGED <<now, last_scale_time>>
        /\ UNCHANGED rebalancerVars
        /\ UNCHANGED schedulerVars

\* time passes between calls
WindowTick ==
    \E d \in WindowTickSteps :
      /\ now + d <= WindowClockLimit
      /\ now' = now + d
      /\ lastCall' = [ op |-> "sleep", ingested |-> lastCall.ingested ]
      /\ UNCHANGED <<last_scale_time, metric_history>>
      /\ UNCHANGED rebalancerVars
      /\ UNCHANGED schedulerVars

InitWindow ==
    /\ now = StartTime
    /\ InitRebalancer
    /\ last_scale_time = 0
    /\ metric_history = <<>>
    /\ lastCall = [ op |-> "__init__", ingested |-> <<>> ]
    /\ InitScheduler

NextWindow ==
    \/ \E m \in WindowMeasurements : IngestMetrics(m[1], m[2], m[3], m[4])
    \/ WindowTick

SpecWindow == InitWindow /\ [][NextWindow]_vars

-----------------------------------------------------------------------------
(* The HPA scheduler *)

SecondsPerDay == 86400

\* A time string 'HH:MM' is the sequence of its four digits.
\* datetime.strptime(s, '%H:%M').time(), in seconds since midnight.
ParseTime(s) == ((s[1] * 10 + s[2]) * 60 + (s[3] * 10 + s[4])) * 60

\* a > b for two time strings: Python compares strings character by
\* character.
StringGreater(a, b) ==
    \E k \in 1..Len(a) : a[k] > b[k] /\ \A j \in 1..(k - 1) : a[j] = b[j]

\* The test without the clause for windows that wrap midnight.
InWindow_NoWrap(window, t) ==
    ParseTime(window.start) <= t /\ t < ParseTime(window.end)

\* The test of get_current_time_window for one window at time of day t.
InWindow(window, t) ==
    \/ ParseTime(window.start) <= t /\ t < ParseTime(window.end)
    \/ /\ StringGreater(window.start, window.end)
       /\ (t >= ParseTime(window.start) \/ t < ParseTime(window.end))

\* The search that falls back on the first window when none matches.
GetCurrentTimeWindow_Default(t) ==
    LET matching == {k \in 1..Len(time_windows) : InWindow(time_windows[k], t)}
    IN  IF matching = {} THEN 1
        ELSE CHOOSE k \in matching : \A j \in matching : k <= j

\* get_current_time_window at time of day t: the position in TIME_WINDOWS
\* of the first window that passes the test, 0 for (None, None).
GetCurrentTimeWindow(t) ==
    LET matching == {k \in 1..Len(time_windows) : InWindow(time_windows[k], t)}
    IN  IF matching = {} THEN 0
        ELSE CHOOSE k \in matching : \A j \in matching : k <= j

WindowName(k) == IF k = 0 THEN NoWindow ELSE time_windows[k].name

\* The comparison with its sense inverted.
NoChangeNeeded_Inverted(window_name, current) == window_name # current

\* The comparison that never finds the window unchanged.
NoChangeNeeded_Never(window_name, current) == FALSE

\* `window_name == self.current_window`
NoChangeNeeded(window_name, current) == window_name = current

\* adjust_hpa with `self.current_window = window_name` before the patch
\* call instead of after it.
AdjustHpaOutcome_SetsFirst(t, current, environment, patch_ok) ==
    LET k           == GetCurrentTimeWindow(t)
        window_name == WindowName(k)
        body        == [ minReplicas |-> time_windows[k].min_replicas,
                         maxReplicas |-> time_windows[k].max_replicas ]
    IN  IF k = 0 THEN [ result |-> FALSE, patch |-> <<>>, current |-> current ]
        ELSE IF NoChangeNeeded(window_name, current)
        THEN [ result |-> FALSE, patch |-> <<>>, current |-> current ]
        ELSE IF environment = "local"
        THEN [ result |-> TRUE, patch |-> <<>>, current |-> window_name ]
        ELSE [ result |-> patch_ok, patch |-> <<body>>, current |-> window_name ]

\* What one call of adjust_hpa does: the value it returns, the body of the
\* patch call it issues (none: <<>>) and current_window after it.  In
\* production the patch call succeeds (patch_ok) or raises.
AdjustHpaOutcome(t, current, environment, patch_ok) ==
    LET k           == GetCurrentTimeWindow(t)
        window_name == WindowName(k)
        body        == [ minReplicas |-> time_windows[k].min_replicas,
                         maxReplicas |-> time_windows[k].max_replicas ]
    IN  IF k = 0 THEN [ result |-> FALSE, patch |-> <<>>, current |-> current ]
        ELSE IF NoChangeNeeded(window_name, current)
        THEN [ result |-> FALSE, patch |-> <<>>, current |-> current ]
        ELSE IF environment = "local"
        THEN [ result |-> TRUE, patch |-> <<>>, current |-> window_name ]
        ELSE IF patch_ok
        THEN [ result |-> TRUE, patch |-> <<body>>, current |-> window_name ]
        ELSE [ result |-> FALSE, patch |-> <<body>>, current |-> current ]

\* adjust_hpa(namespace, hpa_name)
AdjustHpa(environment, patch_ok) ==
    LET outcome == AdjustHpaOutcome(wall_clock, current_window, environment, patch_ok)
    IN  /\ current_window' = outcome.current
        /\ lastOp' = [ op |-> "adjust_hpa", at |-> wall_clock,
                       window |-> WindowName(GetCurrentTimeWindow(wall_clock)),
                       current_before |-> current_window,
                       environment |-> environment,
                       patch |-> outcome.patch, result |-> outcome.result ]
        /\ UNCHANGED <<now, simulated_nodes, last_rebalance_time, wall_clock,
                       last_rollback_check, time_windows>>
        /\ UNCHANGED scaleVars

\* Seconds between two polls of run_scheduled_adjustment, and the times of
\* day at which the scheduler is started.
HpaTickSteps == {60}
HpaStartTimes == {0, 59}

\* time.sleep(interval) in run_scheduled_adjustment
HpaTick ==
    \E d \in HpaTickSteps :
      /\ wall_clock' = (wall_clock + d) % SecondsPerDay
      /\ lastOp' = [ op |-> "sleep", at |-> wall_clock ]
      /\ UNCHANGED <<now, simulated_nodes, last_rebalance_time, current_window,
                     last_rollback_check, time_windows>>
      /\ UNCHANGED scaleVars

InitHpa ==
    /\ now = StartTime
    /\ wall_clock \in HpaStartTimes
    /\ current_window = NoWindow
    /\ last_rollback_check = 0
    /\ time_windows = TIME_WINDOWS
    /\ simulated_nodes = InitialNodes
    /\ last_rebalance_time = 0
    /\ lastOp = [ op |-> "__init__", at |-> wall_clock ]
    /\ InitScaling

NextHpa ==
    \/ \E environment \in {"local", "production"}, patch_ok \in BOOLEAN :
         AdjustHpa(environment, patch_ok)
    \/ HpaTick

SpecHpa == InitHpa /\ [][NextHpa]_vars

-----------------------------------------------------------------------------
(* The rollback check of the HPA scheduler *)

ROLLBACK_CHECK_INTERVAL == 300
ROLLBACK_THRESHOLD_CPU == 85

\* A container's usage.cpu string: its digits and its suffix.  The metrics
\* API reports millicores ('86m') or nanocores ('86000000n').
CpuString(digits, suffix) == [ digits |-> digits, suffix |-> suffix ]

\* `int(cpu.rstrip('m'))` is defined when nothing but digits is left.
IntParses(cpu) == cpu.suffix \in {"m", ""}

\* The listings returned by list_namespaced_custom_object, flattened to the
\* usage.cpu strings of the containers in listing order.
Listings ==
    { <<>>,
      << CpuString(85, "m") >>,
      << CpuString(86, "m") >>,
      << CpuString(80, "m"), CpuString(90, "m") >>,
      << CpuString(80, "m"), CpuString(91, "m") >>,
      << CpuString(86000000, "n") >> }

RECURSIVE TotalCpu(_)
\* `total_cpu += int(cpu.rstrip('m'))` over the containers
TotalCpu(listing) ==
    IF listing = <<>> THEN 0
    ELSE Head(listing).digits + TotalCpu(Tail(listing))

\* The threshold test accepting a mean equal to the threshold.
MeanCpuExceeds_OrEqual(listing) ==
    TotalCpu(listing) >= ROLLBACK_THRESHOLD_CPU * Max(1, Len(listing))

\* `avg_cpu = total_cpu / max(1, count)`, `avg_cpu > ROLLBACK_THRESHOLD_CPU`
MeanCpuExceeds(listing) ==
    TotalCpu(listing) > ROLLBACK_THRESHOLD_CPU * Max(1, Len(listing))

\* `max(w['max_replicas'] for w in self.config.TIME_WINDOWS.values())`
RollbackMaxReplicas ==
    CHOOSE m \in { time_windows[k].max_replicas : k \in DOMAIN time_windows } :
      \A k \in DOMAIN time_windows : time_windows[k].max_replicas <= m

\* The rate limit that lets every call through.
TooSoon_Never(t, last_check) == FALSE

\* `now - self.last_rollback_check < self.config.ROLLBACK_CHECK_INTERVAL`
TooSoon(t, last_check) == t - last_check < ROLLBACK_CHECK_INTERVAL

\* What one call of check_rollback_conditions does: whether it passed the
\* two early returns, whether it queried the metrics API, the body of the
\* patch call it issued (none: <<>>) and the value it returns.  The query
\* returns a listing or raises (query_ok), the patch call succeeds or
\* raises (patch_ok).
CheckRollbackOutcome(t, last_check, enabled, query_ok, listing, patch_ok) ==
    LET body == [ maxReplicas |-> RollbackMaxReplicas ]
        skip == [ evaluated |-> FALSE, queried |-> FALSE, compared |-> FALSE,
                  patch |-> <<>>, result |-> FALSE, last_check |-> last_check ]
        ran  == [ skip EXCEPT !.evaluated = TRUE, !.queried = TRUE,
                              !.last_check = t ]
    IN  IF ~enabled THEN skip
        ELSE IF TooSoon(t, last_check) THEN skip
        ELSE IF ~query_ok THEN ran
        ELSE IF \E i \in 1..Len(listing) : ~IntParses(listing[i]) THEN ran
        ELSE IF ~MeanCpuExceeds(listing) THEN [ ran EXCEPT !.compared = TRUE ]
        ELSE [ ran EXCEPT !.compared = TRUE, !.patch = <<body>>,
                          !.result = patch_ok ]

\* check_rollback_conditions(namespace, hpa_name)
CheckRollbackConditions(enabled, query_ok, listing, patch_ok) ==
    LET outcome == CheckRollbackOutcome(now, last_rollback_check, enabled,
                                        query_ok, listing, patch_ok)
    IN  /\ last_rollback_check' = outcome.last_check
        /\ lastOp' = [ op |-> "check_rollback_conditions", at |-> now,
                       enabled |-> enabled, query_ok |-> query_ok,
                       listing |-> listing, patch_ok |-> patch_ok,
                       last_check_before |-> last_rollback_check,
                       evaluated |-> outcome.evaluated,
                       queried |-> outcome.queried,
                       compared |-> outcome.compared,
                       patch |-> outcome.patch, result |-> outcome.result,
                       prev_eval_at |-> IF outcome.evaluated THEN lastOp.eval_at
                                        ELSE lastOp.prev_eval_at,
                       eval_at |-> IF outcome.evaluated THEN now
                                   ELSE lastOp.eval_at,
                       evaluations |-> IF outcome.evaluated
                                       THEN Min(lastOp.evaluations + 1, 2)
                                       ELSE lastOp.evaluations,
                       active |-> WindowName(GetCurrentTimeWindow(wall_clock)) ]
        /\ UNCHANGED <<now, simulated_nodes, last_rebalance_time,
                       current_window, wall_clock, time_windows>>
        /\ UNCHANGED scaleVars

\* Seconds between two polls of run_scheduled_adjustment, and the times of
\* day at which the scheduler is started.
RollbackTickSteps == {60}
RollbackStartTimes == {10800, 54000}
RollbackClockLimit == StartTime + MaxRollbackElapsed

\* time.sleep(interval) in run_scheduled_adjustment
RollbackTick ==
    \E d \in RollbackTickSteps :
      /\ now + d <= RollbackClockLimit
      /\ now' = now + d
      /\ wall_clock' = (wall_clock + d) % SecondsPerDay
      /\ lastOp' = [ lastOp EXCEPT !.op = "sleep" ]
      /\ UNCHANGED <<simulated_nodes, last_rebalance_time, current_window,
                     last_rollback_check, time_windows>>
      /\ UNCHANGED scaleVars

InitRollback ==
    /\ now = StartTime
    /\ wall_clock \in RollbackStartTimes
    /\ current_window = NoWindow
    /\ last_rollback_check = 0
    /\ time_windows = TIME_WINDOWS
    /\ simulated_nodes = InitialNodes
    /\ last_rebalance_time = 0
    /\ lastOp = [ op |-> "__init__", at |-> now, prev_eval_at |-> 0,
                  eval_at |-> 0, evaluations |-> 0 ]
    /\ InitScaling

NextRollback ==
    \/ \E enabled \in BOOLEAN, query_ok \in BOOLEAN, listing \in Listings,
          patch_ok \in BOOLEAN :
         CheckRollbackConditions(enabled, query_ok, listing, patch_ok)
    \/ RollbackTick

SpecRollback == InitRollback /\ [][NextRollback]_vars

-----------------------------------------------------------------------------
(* One iteration of run_scheduled_adjustment *)

\* A TIME_WINDOWS without its evening entry: no window contains the times
\* of day from 18:00 to midnight.
UncoveredWindows == SubSeq(TIME_WINDOWS, 1, 3)

\* The listings of the polls: one container at the rollback threshold and
\* one above it.
PollListings == { << CpuString(85, "m") >>, << CpuString(86, "m") >> }

\* Times of day at which the scheduler is started: six polls before the
\* end of the night window and six polls before the end of the afternoon
\* window.
PollStartTimes == {21240, 64440}

\* The body of the loop of run_scheduled_adjustment: adjust_hpa, then
\* check_rollback_conditions, then time.sleep(interval).  raised holds the
\* name of the window that was active when check_rollback_conditions last
\* patched maxReplicas, until adjust_hpa patches the bounds again.
RunScheduledAdjustment(environment, adjust_ok, enabled, listing, rollback_ok) ==
    LET adjust   == AdjustHpaOutcome(wall_clock, current_window, environment,
                                     adjust_ok)
        rollback == CheckRollbackOutcome(now, last_rollback_check, enabled,
                                         TRUE, listing, rollback_ok)
        window   == WindowName(GetCurrentTimeWindow(wall_clock))
        applied  == adjust.patch # <<>> /\ adjust.result
        raised   == rollback.patch # <<>> /\ rollback.result
    IN  \E interval \in RollbackTickSteps :
          /\ now + interval <= RollbackClockLimit
          /\ current_window' = adjust.current
          /\ last_rollback_check' = rollback.last_check
          /\ now' = now + interval
          /\ wall_clock' = (wall_clock + interval) % SecondsPerDay
          /\ lastOp' = [ op |-> "run_scheduled_adjustment", at |-> wall_clock,
                         window |-> window,
                         current_before |-> current_window,
                         environment |-> environment,
                         adjust |-> adjust, rollback |-> rollback,
                         raised_before |-> lastOp.raised,
                         raised |-> IF raised THEN <<window>>
                                    ELSE IF applied THEN <<>>
                                    ELSE lastOp.raised ]
          /\ UNCHANGED <<simulated_nodes, last_rebalance_time, time_windows>>
          /\ UNCHANGED scaleVars

InitPoll ==
    /\ now = StartTime
    /\ wall_clock \in PollStartTimes
    /\ current_window = NoWindow
    /\ last_rollback_check = 0
    /\ time_windows \in {TIME_WINDOWS, UncoveredWindows}
    /\ simulated_nodes = InitialNodes
    /\ last_rebalance_time = 0
    /\ lastOp = [ op |-> "__init__", at |-> wall_clock, raised |-> <<>> ]
    /\ InitScaling

NextPoll ==
    \E environment \in {"local", "production"}, adjust_ok \in BOOLEAN,
       enabled \in BOOLEAN, listing \in PollListings, rollback_ok \in BOOLEAN :
      RunScheduledAdjustment(environment, adjust_ok, enabled, listing, rollback_ok)

SpecPoll == InitPoll /\ [][NextPoll]_vars

-----------------------------------------------------------------------------
(* safe_evict_pod of utils.py *)

\* The attributes of the Config class.
ConfigAttributes ==
    { "KUBECONFIG", "AKS_CLUSTER_NAME", "AZURE_SUBSCRIPTION_ID",
      "SPOT_NODE_POOL", "REGULAR_NODE_POOL", "SPOT_UTILIZATION_THRESHOLD",
      "REGULAR_UTILIZATION_THRESHOLD", "MAX_SPOT_INTERRUPTION_RISK",
      "KEDA_NAMESPACE", "PROMETHEUS_URL", "SCALING_COOLDOWN", "MIN_REPLICAS",
      "MAX_REPLICAS", "CPU_SCALING_THRESHOLD", "MEMORY_SCALING_THRESHOLD",
      "ENVIRONMENT", "RESPONSE_TIME_THRESHOLD", "MAX_RESPONSE_TIME",
      "COOLDOWN_PERIOD", "STABILIZATION_WINDOW", "MIN_CHANGE_PERIOD",
      "TIME_WINDOWS", "ROLLBACK_ENABLED", "ROLLBACK_THRESHOLD_CPU",
      "ROLLBACK_CHECK_INTERVAL" }

\* What the API answers to one attempt: the eviction is created, the pod
\* read carries the label critical=true, the API answers 429, or it raises
\* an ApiException with another status.
AttemptAnswers == {"evicted", "critical", "rate_limited", "api_error"}

\* random.uniform(0, 1), in milliseconds
JitterChoices == {0, 500, 1000}

RECURSIVE Pow2(_)
\* `2 ** attempt`
Pow2(k) == IF k = 0 THEN 1 ELSE 2 * Pow2(k - 1)

RECURSIVE EvictLoop(_, _, _, _, _)
\* `for attempt in range(max_retries)`: attempt is counted from 0, waits
\* collects the arguments of time.sleep in milliseconds.
EvictLoop(attempt, max_retries, answers, jitter, waits) ==
    IF attempt >= max_retries
    THEN [ raised |-> "", result |-> FALSE, attempts |-> attempt, waits |-> waits ]
    ELSE LET answer == answers[attempt + 1]
         IN  IF answer = "evicted"
             THEN [ raised |-> "", result |-> TRUE, attempts |-> attempt + 1,
                    waits |-> waits ]
             ELSE IF answer = "rate_limited"
             THEN EvictLoop(attempt + 1, max_retries, answers, jitter,
                            Append(waits, Pow2(attempt) * Milli + jitter[attempt + 1]))
             ELSE [ raised |-> "", result |-> FALSE, attempts |-> attempt + 1,
                    waits |-> waits ]

\* `Config().TEST_MODE`
TestModeLookup ==
    IF "TEST_MODE" \in ConfigAttributes
    THEN [ raised |-> "", value |-> FALSE ]
    ELSE [ raised |-> "AttributeError", value |-> FALSE ]

\* safe_evict_pod(pod_name, namespace, max_retries) of utils.py: the
\* exception that leaves the call (none: ""), the value returned, the
\* number of attempts made and the waits between them.
SafeEvictOutcome(max_retries, answers, jitter) ==
    IF TestModeLookup.raised # ""
    THEN [ raised |-> TestModeLookup.raised, result |-> FALSE, attempts |-> 0,
           waits |-> <<>> ]
    ELSE IF TestModeLookup.value
    THEN [ raised |-> "", result |-> TRUE, attempts |-> 0, waits |-> <<>> ]
    ELSE EvictLoop(0, max_retries, answers, jitter, <<>>)

RECURSIVE SumWaits(_)
SumWaits(waits) == IF waits = <<>> THEN 0 ELSE Head(waits) + SumWaits(Tail(waits))

\* One call of utils.safe_evict_pod; time.sleep advances the clock.
SafeEvictPod(max_retries, answers, jitter) ==
    LET outcome == SafeEvictOutcome(max_retries, answers, jitter)
    IN  /\ lastOp' = [ op |-> "utils.safe_evict_pod", at |-> now,
                       max_retries |-> max_retries, answers |-> answers,
                       raised |-> outcome.raised, result |-> outcome.result,
                       attempts |-> outcome.attempts, waits |-> outcome.waits ]
        /\ now' = now + (SumWaits(outcome.waits) \div Milli)
        /\ UNCHANGED <<simulated_nodes, last_rebalance_time>>
        /\ UNCHANGED scaleVars
        /\ UNCHANGED schedulerVars

InitEvict ==
    /\ now = StartTime
    /\ simulated_nodes = InitialNodes
    /\ last_rebalance_time = 0
    /\ lastOp = [ op |-> "__init__", at |-> now ]
    /\ InitScaling
    /\ InitScheduler

NextEvict ==
    \E max_retries \in 1..MaxRetries,
       answers \in [1..MaxRetries -> AttemptAnswers],
       jitter \in [1..MaxRetries -> JitterChoices] :
      SafeEvictPod(max_retries, answers, jitter)

SpecEvict == InitEvict /\ [][NextEvict]_vars

-----------------------------------------------------------------------------
(* Properties of the scaling decision engine *)

\* The last call evaluated a scale decision (it ran should_scale_up), at
\* time now.
DecisionMade == lastCall.op \in {"should_scale_up", "auto_scale_node_pool"}

\* The last call took a scale action: should_scale_up decided ScaleUp, or
\* the caller asked for a different pod count.
ScaleActionTaken == lastCall.result \/ lastCall.resize # 0

\* C6: a scale decision evaluated less than MIN_CHANGE_PERIOD after a scale
\* action (ScaleUp or caller-side ScaleDown) is NoOp.
C6_MonotonicCooldown ==
    ScaleActionTaken /\ lastCall.prev_action_at > 0
      => now - lastCall.prev_action_at >= 120

\* C7: within MIN_CHANGE_PERIOD of last_scale_time should_scale_up returns
\* False, whatever the samples are, and leaves last_scale_time alone; two
\* True results are at least MIN_CHANGE_PERIOD apart.
C7_CooldownNoOp ==
    DecisionMade =>
      /\ now - lastCall.last_scale_before < 120 =>
           ~lastCall.result /\ last_scale_time = lastCall.last_scale_before
      /\ lastCall.result /\ lastCall.prev_true_at > 0 =>
           now - lastCall.prev_true_at >= 120

\* The sum of a field over the window, and "mean > limit".
WindowSum(field) ==
    LET part[k \in 0..Len(metric_history)] ==
          IF k = 0 THEN 0 ELSE part[k - 1] + metric_history[k][field]
    IN  part[Len(metric_history)]

MeanAbove(field, limit) == WindowSum(field) > limit * Len(metric_history)

\* should_scale_up was called 10 s .. 119 s after a ScaleUp, with a mean CPU
\* above the threshold, and returned False.
C7_Witness ==
    /\ DecisionMade
    /\ lastCall.last_scale_before > 0
    /\ now - lastCall.last_scale_before \in 10..119
    /\ metric_history # <<>>
    /\ MeanAbove("cpu", 70)
    /\ ~lastCall.result

\* C8: with the cooldown elapsed, should_scale_up returns True exactly when
\* the window is not empty and its mean response time is above
\* MAX_RESPONSE_TIME or above RESPONSE_TIME_THRESHOLD, or its mean CPU is
\* above CPU_SCALING_THRESHOLD, or its mean memory is above
\* MEMORY_SCALING_THRESHOLD.
C8_ScaleUpDecision ==
    DecisionMade /\ now - lastCall.last_scale_before >= 120 =>
      ( lastCall.result <=>
          /\ metric_history # <<>>
          /\ \/ MeanAbove("response_time", 2000)
             \/ MeanAbove("response_time", 1000)
             \/ MeanAbove("cpu", 70)
             \/ MeanAbove("memory", 80) )

\* ScaleUp on a mean response time above the maximum while mean CPU and
\* memory are below their thresholds.
C8_Witness ==
    /\ DecisionMade
    /\ now - lastCall.last_scale_before >= 120
    /\ lastCall.result
    /\ MeanAbove("response_time", 2000)
    /\ ~MeanAbove("cpu", 70)
    /\ ~MeanAbove("memory", 80)

\* C16: right after update_metrics at time now, metric_history is the list of
\* the samples ingested so far whose timestamp is greater than
\* now - STABILIZATION_WINDOW, in the order of their ingestion.
C16_WindowContents ==
    lastCall.op = "update_metrics" /\ "ingested" \in DOMAIN lastCall =>
      metric_history = SelectSeq(lastCall.ingested, LAMBDA m : m.timestamp > now - 60)

\* An update that pruned a sample taken exactly STABILIZATION_WINDOW
\* seconds earlier and kept a younger one.
C16_Witness ==
    /\ lastCall.op = "update_metrics"
    /\ "ingested" \in DOMAIN lastCall
    /\ \E k \in 1..Len(lastCall.ingested) : lastCall.ingested[k].timestamp = now - 60
    /\ Len(metric_history) >= 2

\* C17: a call that takes a scale action, ScaleUp or ScaleDown, leaves
\* last_scale_time at the time of the action.
C17_ActionSetsCooldown ==
    ScaleActionTaken => last_scale_time = now

\* C18: the pod count auto_scale_node_pool asks scale_node_pool for is within
\* MIN_REPLICAS..MAX_REPLICAS.
C18_RequestedCountInBounds ==
    lastCall.op = "auto_scale_node_pool" /\ lastCall.resize # 0
      => lastCall.resize \in 1..10

-----------------------------------------------------------------------------
(* Properties of the HPA scheduler *)

\* The windows as the configuration states them, in seconds since midnight.
ConfiguredWindows ==
    { [name |-> "night",     start |-> 0,     end |-> 21600],
      [name |-> "morning",   start |-> 21600, end |-> 43200],
      [name |-> "afternoon", start |-> 43200, end |-> 64800],
      [name |-> "evening",   start |-> 64800, end |-> 0] }

\* "Window w contains t": start <= t < end when start < end, and t >= start
\* or t < end when start > end.
Contains(w, t) ==
    IF w.start < w.end THEN w.start <= t /\ t < w.end
    ELSE IF w.start > w.end THEN t >= w.start \/ t < w.end
    ELSE FALSE

\* Windows 'HH:MM'-'HH:MM' other than the configured ones: two that wrap
\* midnight and two that do not.
OtherWindows ==
    { [start |-> <<2, 2, 0, 0>>, end |-> <<0, 2, 0, 0>>],
      [start |-> <<1, 8, 3, 0>>, end |-> <<0, 9, 1, 5>>],
      [start |-> <<0, 9, 3, 0>>, end |-> <<1, 7, 4, 5>>],
      [start |-> <<0, 2, 0, 0>>, end |-> <<1, 0, 0, 0>>] }

\* C19: every time of day is in exactly one configured window, and
\* get_current_time_window returns that window; the test of
\* get_current_time_window takes a window with start < end for start <= t <
\* end, and a window with start > end for t >= start or t < end.
C19_TimeWindows ==
    /\ Cardinality({w \in ConfiguredWindows : Contains(w, wall_clock)}) = 1
    /\ lastOp.op = "adjust_hpa" =>
         \E w \in ConfiguredWindows : Contains(w, wall_clock) /\ lastOp.window = w.name
    /\ \A k \in 1..Len(TIME_WINDOWS) : \E w \in ConfiguredWindows :
         /\ w.name = TIME_WINDOWS[k].name
         /\ InWindow(TIME_WINDOWS[k], wall_clock) <=> Contains(w, wall_clock)
    /\ \A o \in OtherWindows :
         InWindow(o, wall_clock)
           <=> Contains([start |-> ParseTime(o.start), end |-> ParseTime(o.end)], wall_clock)

\* A poll one second before midnight found the evening window.
C19_Witness ==
    /\ lastOp.op = "adjust_hpa"
    /\ wall_clock = 86399
    /\ lastOp.window = "evening"

\* C20: adjust_hpa issues the patch call or returns True only when the
\* active window's name differs from current_window; when it is the same
\* the call returns False, patches nothing and leaves current_window; after
\* a call that returned True current_window is the active window's name.
C20_PatchOnWindowChange ==
    lastOp.op = "adjust_hpa" =>
      /\ lastOp.patch # <<>> \/ lastOp.result => lastOp.window # lastOp.current_before
      /\ lastOp.window = lastOp.current_before =>
           /\ ~lastOp.result
           /\ lastOp.patch = <<>>
           /\ current_window = lastOp.current_before
      /\ lastOp.result => current_window = lastOp.window
      /\ lastOp.result /\ lastOp.environment = "production" => lastOp.patch # <<>>

\* A poll in production that patched the bounds of the morning window when
\* the night window had been applied before.
C20_Witness ==
    /\ lastOp.op = "adjust_hpa"
    /\ lastOp.result
    /\ lastOp.current_before = "night"
    /\ lastOp.window = "morning"
    /\ lastOp.patch = <<[minReplicas |-> 2, maxReplicas |-> 5]>>


\* The time of the last evaluation that preceded the last call, and whether
\* there was one.
PreviousEvaluation ==
    IF lastOp.evaluated THEN lastOp.prev_eval_at ELSE lastOp.eval_at

HadEvaluation ==
    IF lastOp.evaluated THEN lastOp.evaluations = 2 ELSE lastOp.evaluations >= 1

\* C21: two rollback evaluations are never less than ROLLBACK_CHECK_INTERVAL
\* apart: a check_rollback_conditions call made less than that interval
\* after the previous evaluation returns False without querying the metrics
\* and without patching, and is not itself an evaluation.
C21_RollbackRateLimit ==
    lastOp.op = "check_rollback_conditions" /\ HadEvaluation =>
      /\ lastOp.evaluated =>
           lastOp.at - PreviousEvaluation >= ROLLBACK_CHECK_INTERVAL
      /\ lastOp.at - PreviousEvaluation < ROLLBACK_CHECK_INTERVAL =>
           /\ ~lastOp.result
           /\ ~lastOp.queried
           /\ lastOp.patch = <<>>
           /\ last_rollback_check = lastOp.last_check_before

\* A call 240 seconds after an evaluation, with rollback enabled and a
\* listing above the threshold, that returned without a query.
C21_Witness ==
    /\ lastOp.op = "check_rollback_conditions"
    /\ lastOp.enabled
    /\ lastOp.query_ok
    /\ lastOp.listing = << CpuString(86, "m") >>
    /\ lastOp.evaluations = 1
    /\ lastOp.at - lastOp.eval_at = 240
    /\ ~lastOp.queried
    /\ ~lastOp.result

\* The mean of the containers' CPU readings is above the threshold.
RollbackMeanAbove(listing) ==
    /\ Len(listing) > 0
    /\ TotalCpu(listing) > ROLLBACK_THRESHOLD_CPU * Len(listing)

\* The largest max_replicas of the configured windows is what the patch
\* asks for.
PatchesGlobalMaximum ==
    /\ lastOp.patch = << [ maxReplicas |-> 8 ] >>
    /\ \A k \in DOMAIN TIME_WINDOWS :
         TIME_WINDOWS[k].max_replicas <= lastOp.patch[1].maxReplicas

-----------------------------------------------------------------------------
(* Properties of safe_evict_pod of utils.py *)

\* The first attempt, counted from 1, whose answer is not a rate limit; 0
\* when the first max_retries answers are all rate limits.
FirstSettled(answers, max_retries) ==
    IF \A k \in 1..max_retries : answers[k] = "rate_limited" THEN 0
    ELSE CHOOSE k \in 1..max_retries :
           /\ answers[k] # "rate_limited"
           /\ \A j \in 1..(k - 1) : answers[j] = "rate_limited"

\* C23: utils.safe_evict_pod raises nothing and makes at most max_retries
\* attempts; after the k-th rate-limited attempt (k from 0) it waits between
\* 2^k and 2^k + 1 seconds; it returns False once max_retries attempts were
\* rate-limited, False at once for a critical pod or another API error, and
\* True at the first successful eviction.
C23_SafeEvictRetries ==
    lastOp.op = "utils.safe_evict_pod" =>
      LET first == FirstSettled(lastOp.answers, lastOp.max_retries)
      IN  /\ lastOp.raised = ""
          /\ lastOp.attempts <= lastOp.max_retries
          /\ lastOp.attempts = IF first = 0 THEN lastOp.max_retries ELSE first
          /\ lastOp.result = (first # 0 /\ lastOp.answers[first] = "evicted")
          /\ \A k \in 1..Len(lastOp.waits) :
               /\ lastOp.waits[k] >= Pow2(k - 1) * Milli
               /\ lastOp.waits[k] <= Pow2(k - 1) * Milli + Milli


-----------------------------------------------------------------------------
(* Properties of the metrics queries *)

\* C24: get_prometheus_metrics returns 0.0 and raises nothing when the
\* query fails or yields no result, and an auto_scale_node_pool cycle with
\* such a query completes with a boolean result, its handler not entered:
\* the sample it records carries 0 for the missing value.
C24_UnavailableIsZero ==
    lastCall.op = "auto_scale_node_pool_cycle" /\ lastCall.environment = "production" =>
      /\ \A k \in 1..3 :
           lastCall.answers[k].kind # "value" =>
             /\ lastCall.queries[k].raised = ""
             /\ lastCall.queries[k].value = 0
      /\ lastCall.result \in BOOLEAN
      /\ ~lastCall.handled
      /\ metric_history # <<>>
      /\ LET recorded == metric_history[Len(metric_history)]
         IN  /\ recorded.timestamp = now
             /\ lastCall.answers[1].kind # "value" => recorded.cpu = 0
             /\ lastCall.answers[2].kind # "value" => recorded.memory = 0

\* A production cycle whose CPU request failed while memory and pod count
\* were answered: CPU is taken as 0 and the cycle returns True.
C24_Witness ==
    /\ lastCall.op = "auto_scale_node_pool_cycle"
    /\ lastCall.environment = "production"
    /\ lastCall.answers = << RequestError, Value(40), Value(5) >>
    /\ lastCall.queries[1] = [ raised |-> "", value |-> 0 ]
    /\ lastCall.result


-----------------------------------------------------------------------------
(* Properties of the loops under a stop signal *)

\* C25: a stop signal delivered while a cycle of the rebalance loop is
\* running does not abort the cycle: the cycle runs to completion (the
\* cluster is the one a whole cycle leaves and last_rebalance_time is
\* assigned), and the loop stops only afterwards.
C25_CycleCompletes ==
    /\ lastOp.op = "rebalance_cluster"
    /\ "error" \in DOMAIN lastOp
    /\ lastOp.error = StopSignal
    => /\ simulated_nodes = CycleResult(lastOp.before, lastOp.at)
       /\ last_rebalance_time >= lastOp.at


-----------------------------------------------------------------------------
(* Properties of get_node_metrics *)

\* C26: get_node_metrics returns one entry for every node the cluster API
\* lists, keyed by the node's name and carrying the node's allocatable CPU
\* and memory.
C26_EntryPerListedNode ==
    lastOp.op = "get_node_metrics" =>
      \A n \in DOMAIN lastOp.listing :
        /\ n \in DOMAIN lastOp.metrics
        /\ lastOp.metrics[n].allocatable = lastOp.listing[n]


-----------------------------------------------------------------------------
(* Properties of the reprogramming after a node loss *)

\* The pods the lost node held.
OrphanedPods == lastOp.before[lastOp.arg].pods

\* C27: during simulate_spot_node_interruption a pod is placed on a node
\* only if the node's committed usage plus the pod's request is within its
\* allocatable CPU and memory; so every remaining node that was within
\* capacity before the event is within capacity after it.
C27_InterruptionKeepsCapacity ==
    NodeLost =>
      \A n \in DOMAIN simulated_nodes :
        WithinCapacity(lastOp.before[n]) => WithinCapacity(simulated_nodes[n])


\* The node has room for the pod by the requests of the pods it holds.
HasCapacity(info, pod) ==
    /\ SumCpu(info.pods) + ParseCpu(pod.cpu) <= AllocCpu(info)
    /\ SumMem(info.pods) + pod.memory <= AllocMem(info)

\* The nodes on which an iteration put its pod.
Receivers(step) ==
    { n \in DOMAIN step.after : Len(step.after[n].pods) = Len(step.before[n].pods) + 1 }

\* The preemptible nodes with room for the pod of an iteration, and whether
\* the durable fallback node is there with room for it.
SpotsWithCapacity(step) ==
    { n \in DOMAIN step.before :
        step.before[n].is_spot /\ HasCapacity(step.before[n], step.pod) }

FallbackHasCapacity(step) ==
    /\ fallback_node_name \in DOMAIN step.before
    /\ ~step.before[fallback_node_name].is_spot
    /\ HasCapacity(step.before[fallback_node_name], step.pod)

\* C28: for each orphaned pod the durable fallback node receives the pod
\* only when no remaining preemptible node has capacity for it; when neither
\* a preemptible node nor the fallback node has capacity the pod is placed
\* on no node; and every orphaned pod is processed, whatever happened to the
\* ones before it.
C28_FallbackOrder ==
    NodeLost =>
      /\ Len(lastOp.trace) = Len(OrphanedPods)
      /\ \A k \in 1..Len(lastOp.trace) :
           LET step == lastOp.trace[k]
           IN  /\ step.pod = OrphanedPods[k]
               /\ fallback_node_name \in Receivers(step)
                    /\ ~step.before[fallback_node_name].is_spot
                    => SpotsWithCapacity(step) = {}
               /\ SpotsWithCapacity(step) = {} /\ ~FallbackHasCapacity(step)
                    => step.after = step.before


-----------------------------------------------------------------------------
(* Properties of _execute_migrations *)

BatchRan == lastOp.op = "_execute_migrations"

\* The pod at position k of the batch is skipped: eviction is denied, or no
\* node held it when the batch started.
Skipped(k) ==
    \/ lastOp.pods[k].critical = "true"
    \/ Residences(lastOp.before, DOMAIN lastOp.before, lastOp.pods[k].name) = 0

\* The destination of position k: the ranked destinations taken in turn,
\* the best one first.
Destination(k) == lastOp.target_nodes[((k - 1) % Len(lastOp.target_nodes)) + 1]

\* Number of pods of the batch on node n.
BatchPodsOn(nodes, n) ==
    Cardinality({ k \in 1..Len(lastOp.pods) :
                    Residences(nodes, {n}, lastOp.pods[k].name) = 1 })

\* C29: the pod at position k of the batch (k from 0) goes to destination
\* k mod n of the n ranked destinations; in a batch in which no pod is
\* skipped the numbers of pods received by two destinations differ by at
\* most one.
C29_RoundRobin ==
    BatchRan =>
      /\ \A k \in 1..Len(lastOp.pods) :
           ~Skipped(k) =>
             /\ Residences(simulated_nodes, {Destination(k)}, lastOp.pods[k].name) = 1
             /\ Residences(simulated_nodes, DOMAIN simulated_nodes, lastOp.pods[k].name) = 1
      /\ (\A k \in 1..Len(lastOp.pods) : ~Skipped(k)) =>
           \A i, j \in 1..Len(lastOp.target_nodes) :
             BatchPodsOn(simulated_nodes, lastOp.target_nodes[i])
               - BatchPodsOn(simulated_nodes, lastOp.target_nodes[j]) <= 1

\* A batch of three pods, none skipped, spread over two destinations: two
\* on the best one, one on the other.
C29_Witness ==
    /\ BatchRan
    /\ Len(lastOp.pods) = 3
    /\ \A k \in 1..3 : ~Skipped(k)
    /\ lastOp.target_nodes = << "aks-spot-2", "aks-spot-1" >>
    /\ BatchPodsOn(simulated_nodes, "aks-spot-2") = 2
    /\ BatchPodsOn(simulated_nodes, "aks-spot-1") = 1

\* The pod list node n has after the batch if exactly the pods that are not
\* skipped are moved: what it held without them, then those bound for it in
\* batch order.
MovedNames == { lastOp.pods[k].name : k \in { i \in 1..Len(lastOp.pods) : ~Skipped(i) } }

RECURSIVE Arrivals(_, _)
Arrivals(n, k) ==
    IF k > Len(lastOp.pods) THEN <<>>
    ELSE IF ~Skipped(k) /\ Destination(k) = n
    THEN << lastOp.pods[k] >> \o Arrivals(n, k + 1)
    ELSE Arrivals(n, k + 1)

ExpectedPods(n) ==
    SelectSeq(lastOp.before[n].pods, LAMBDA p : p.name \notin MovedNames) \o Arrivals(n, 1)

\* C30: within a batch a pod that is denied eviction or found on no node
\* changes no pod list and no usage counter, every other pod is moved to its
\* destination, and no move is undone: each node holds what it held without
\* the moved pods, then the pods moved to it, and its counters are the sums
\* over that list.
C30_SkipIndependence ==
    BatchRan =>
      /\ DOMAIN simulated_nodes = DOMAIN lastOp.before
      /\ \A n \in DOMAIN simulated_nodes :
           /\ simulated_nodes[n].pods = ExpectedPods(n)
           /\ simulated_nodes[n].current_cpu_usage = SumCpu(ExpectedPods(n))
           /\ simulated_nodes[n].current_mem_usage_gb = SumMem(ExpectedPods(n))
      /\ (\A k \in 1..Len(lastOp.pods) : Skipped(k)) => simulated_nodes = lastOp.before

\* A batch whose first pod is critical, whose second is on no node and
\* whose third was moved from the durable node to the destination of its
\* position.
C30_Witness ==
    /\ BatchRan
    /\ Len(lastOp.pods) = 3
    /\ lastOp.pods[1].critical = "true"
    /\ lastOp.pods[2] = MissingPod
    /\ ~Skipped(3)
    /\ lastOp.target_nodes = << "aks-spot-1", "aks-spot-2" >>
    /\ Residences(lastOp.before, {"aks-regular-1"}, lastOp.pods[3].name) = 1
    /\ Residences(simulated_nodes, {"aks-spot-1"}, lastOp.pods[3].name) = 1

\* "No configured window contains t", from the windows' boundaries in
\* seconds since midnight.
Uncovered(t) ==
    \A k \in DOMAIN time_windows :
      ~Contains([ start |-> ParseTime(time_windows[k].start),
                  end |-> ParseTime(time_windows[k].end) ], t)

\* C31: when no configured window contains the current time,
\* get_current_time_window returns no window and adjust_hpa returns False,
\* issues no patch and leaves current_window unchanged.
C31_NoWindowIsError ==
    lastOp.op = "run_scheduled_adjustment" /\ Uncovered(lastOp.at) =>
      /\ lastOp.window = NoWindow
      /\ ~lastOp.adjust.result
      /\ lastOp.adjust.patch = <<>>
      /\ lastOp.adjust.current = lastOp.current_before

\* A poll at 18:00 under the windows without an evening entry, with the
\* afternoon window applied before: nothing was patched and the afternoon
\* window is still the applied one.
C31_Witness ==
    /\ lastOp.op = "run_scheduled_adjustment"
    /\ lastOp.at = 64800
    /\ Uncovered(lastOp.at)
    /\ lastOp.environment = "production"
    /\ lastOp.current_before = "afternoon"
    /\ current_window = "afternoon"
    /\ lastOp.adjust.patch = <<>>

\* The bounds adjust_hpa patches for the window named name.
BoundsOf(name) ==
    LET w == CHOOSE w \in { time_windows[k] : k \in DOMAIN time_windows } :
               w.name = name
    IN  [ minReplicas |-> w.min_replicas, maxReplicas |-> w.max_replicas ]

\* The poll found maxReplicas raised by check_rollback_conditions in the
\* window that is still the active one.
OverrideInForce ==
    /\ lastOp.op = "run_scheduled_adjustment"
    /\ lastOp.raised_before = << lastOp.window >>

\* C32 as stated: after check_rollback_conditions has raised maxReplicas,
\* adjust_hpa issues no patch for as long as the active window's name stays
\* the same.
C32_OverrideUntilWindowChange ==
    OverrideInForce => lastOp.adjust.patch = <<>>

\* C32, amended: after check_rollback_conditions has raised maxReplicas,
\* adjust_hpa issues no patch for as long as the active window's name stays
\* the same and is the name held in current_window; when current_window
\* holds another name, adjust_hpa in production patches the active window's
\* own bounds in the same window.
C32_OverrideWhileApplied ==
    OverrideInForce =>
      /\ lastOp.current_before = lastOp.window =>
           /\ lastOp.adjust.patch = <<>>
           /\ ~lastOp.adjust.result
      /\ /\ lastOp.current_before # lastOp.window
         /\ lastOp.window # NoWindow
         /\ lastOp.environment = "production"
         => lastOp.adjust.patch = << BoundsOf(lastOp.window) >>

\* A poll in the night window with the night window applied and maxReplicas
\* raised before: the load is at the threshold, the rollback check is made
\* and patches nothing, adjust_hpa patches nothing and the override stays.
C32_Witness ==
    /\ OverrideInForce
    /\ lastOp.window = "night"
    /\ lastOp.current_before = "night"
    /\ lastOp.rollback.compared
    /\ lastOp.rollback.patch = <<>>
    /\ lastOp.adjust.patch = <<>>
    /\ lastOp.raised = << "night" >>

-----------------------------------------------------------------------------
(* Properties of the usage counters and of pod residency *)

\* The usage counters of node n are the sums of the requests of its pods.
UsageIsSum(nodes, n) ==
    /\ nodes[n].current_cpu_usage = SumCpu(nodes[n].pods)
    /\ nodes[n].current_mem_usage_gb = SumMem(nodes[n].pods)

\* C33: after every rebalance cycle and every node-loss event, each node's
\* current_cpu_usage and current_mem_usage_gb equal the sums of the CPU and
\* memory requests of the pods in its pod list.
C33_UsageIsSumOfRequests ==
    lastOp.op \in {"rebalance_cluster", "simulate_spot_node_interruption"} =>
      \A n \in DOMAIN simulated_nodes : UsageIsSum(simulated_nodes, n)

\* A node loss after which a surviving node holds more pods and a larger
\* CPU usage than before.
C33_Witness ==
    /\ lastOp.op = "simulate_spot_node_interruption"
    /\ lastOp.ran
    /\ \E n \in DOMAIN simulated_nodes :
         /\ Len(simulated_nodes[n].pods) > Len(lastOp.before[n].pods)
         /\ simulated_nodes[n].current_cpu_usage > lastOp.before[n].current_cpu_usage
         /\ UsageIsSum(simulated_nodes, n)

\* The pods of the last batch, by identity (name, namespace).
InBatch(q) ==
    \E k \in 1..Len(lastOp.pods) :
      /\ lastOp.pods[k].name = q.name
      /\ lastOp.pods[k].namespace = q.namespace

\* C34: _execute_migrations changes the residency of the pods of its batch
\* only: every other pod, a pod with the name of a batch pod in another
\* namespace included, is still in the pod list of the node it was on.
C34_OtherPodsStay ==
    lastOp.op = "_execute_migrations" =>
      \A n \in DOMAIN lastOp.before :
        \A k \in 1..Len(lastOp.before[n].pods) :
          LET q == lastOp.before[n].pods[k]
          IN  ~InBatch(q) =>
                \E j \in 1..Len(simulated_nodes[n].pods) : simulated_nodes[n].pods[j] = q

\* C35: for every pod handled by simulate_spot_node_interruption, the CPU
\* request read by its capacity check (millionths of a core) is the CPU
\* request read by _update_simulated_node_usage and _calculate_pod_priority
\* (millicores), for '500m' and for '0.5' alike.
C35_SameCpuRequest ==
    lastOp.op = "simulate_spot_node_interruption" =>
      \A k \in 1..Len(lastOp.trace) :
        ParseCpuInterruption(lastOp.trace[k].pod.cpu)
          = ParseCpu(lastOp.trace[k].pod.cpu) * 1000

\* The patch call of the last poll's adjust_hpa was made and raised.
AdjustPatchFailed ==
    /\ lastOp.op = "run_scheduled_adjustment"
    /\ lastOp.adjust.patch # <<>>
    /\ ~lastOp.adjust.result

\* C36: when the patch call of adjust_hpa fails, adjust_hpa returns False
\* and current_window is what it was, and the adjust_hpa of the next poll
\* in the same window makes the same change again: in production it issues
\* the same patch, in the local environment it records the window.
C36_FailedPatchRetried ==
    /\ [](AdjustPatchFailed => current_window = lastOp.current_before)
    /\ [][ AdjustPatchFailed /\ lastOp'.window = lastOp.window =>
             IF lastOp'.environment = "production"
             THEN lastOp'.adjust.patch = lastOp.adjust.patch
             ELSE lastOp'.adjust.result /\ current_window' = lastOp.window ]_vars

\* The second poll of the night: current_window is still None because the
\* patch of the first poll failed, and the patch of the night bounds is
\* issued again and fails again.
C36_Witness ==
    /\ AdjustPatchFailed
    /\ lastOp.at = 21300
    /\ lastOp.window = "night"
    /\ lastOp.current_before = NoWindow
    /\ lastOp.adjust.patch = << [minReplicas |-> 1, maxReplicas |-> 3] >>
    /\ current_window = NoWindow

-----------------------------------------------------------------------------
(* Properties of aborted cycles *)

\* C37 as stated: a cycle that aborts on an exception leaves
\* last_rebalance_time unchanged, and the guard lets a call made right
\* after it through.
C37_AbortLeavesTime ==
    CycleFailed =>
      /\ last_rebalance_time = lastOp.last_before
      /\ ~TooEarly(lastOp.at, last_rebalance_time)

\* C37, amended: a cycle that aborts on an exception before it is past its
\* migration step leaves last_rebalance_time unchanged and the guard lets a
\* call made right after it through; a cycle that aborts in the closing
\* summary has set last_rebalance_time, and the guard holds a call made
\* right after it back.
C37_AbortBeforeStamp ==
    CycleFailed =>
      IF lastOp.arg = "summary"
      THEN /\ last_rebalance_time = lastOp.at
           /\ TooEarly(lastOp.at, last_rebalance_time)
      ELSE /\ last_rebalance_time = lastOp.last_before
           /\ ~TooEarly(lastOp.at, last_rebalance_time)

\* A cycle aborted while migrating, after it had moved a pod:
\* last_rebalance_time is what it was.
C37_Witness ==
    /\ CycleFailed
    /\ lastOp.arg = "_execute_migrations"
    /\ simulated_nodes # RefreshUsage(lastOp.before)
    /\ last_rebalance_time = lastOp.last_before

-----------------------------------------------------------------------------
(* Properties of the resize requests *)

\* C38: in an auto_scale_node_pool step in which should_scale_up returned
\* True, the pool is not resized to fewer replicas than current_pods: the
\* scale-down branch is taken only in steps in which should_scale_up
\* returned False.
C38_NoScaleDownOnScaleUp ==
    lastCall.op = "auto_scale_node_pool" /\ lastCall.result /\ lastCall.resize # 0 =>
      lastCall.resize >= lastCall.current_pods

-----------------------------------------------------------------------------
(* Progress of the rebalance loop *)

HasSpotNode == \E n \in DOMAIN simulated_nodes : simulated_nodes[n].is_spot

\* aks-regular-1 holds no non-critical pod.
RegularDrained ==
    \A k \in 1..Len(simulated_nodes["aks-regular-1"].pods) :
      simulated_nodes["aks-regular-1"].pods[k].critical = "true"

\* C39: when a preemptible node remains in the node set for good and the
\* cycles keep being run, REBALANCE_INTERVAL_SECONDS apart, then from some
\* point on (after the last node loss) aks-regular-1 holds no non-critical
\* pod.
C39_RegularEventuallyDrained == []HasSpotNode => <>[]RegularDrained

\* A cycle run after the loss of aks-spot-2 found non-critical pods on
\* aks-regular-1 and left none there.
C39_Witness ==
    /\ CycleRan
    /\ DOMAIN simulated_nodes = {"aks-spot-1", "aks-regular-1"}
    /\ FindPodsForRebalance(lastOp.before) # <<>>
    /\ RegularDrained

-----------------------------------------------------------------------------
(* Properties of a cycle without telemetry *)

\* C40: an auto_scale_node_pool cycle whose CPU and memory queries both
\* came back unavailable, and were read as 0, makes no scale_node_pool
\* call.
C40_NoResizeWithoutMetrics ==
    (/\ lastCall.op = "auto_scale_node_pool_cycle"
     /\ lastCall.environment = "production"
     /\ lastCall.answers[1].kind # "value"
     /\ lastCall.answers[2].kind # "value")
    => lastCall.resize = 0

=============================================================================
